---- MODULE Spec2Model ----
(***************************************************************************)
(* Model of the COIN-OR knowledge-base graph query engine                  *)
(* (mcp-server/knowledge_graph.py) on stores produced by                   *)
(* scripts/build-knowledge-graph.py, and of the stdio loop that serves it  *)
(* (mcp-server/coin_or_kb_server.py).                                      *)
(*                                                                         *)
(* A Python string is a sequence of one-character strings, so that         *)
(* lower(), `in` and the '/' test are computed and not assumed.            *)
(* A Python dict is a function; an absent key is a value outside DOMAIN.   *)
(***************************************************************************)
EXTENDS Integers, Sequences, FiniteSets, TLC

VARIABLES
    concepts,       \* self.data['concepts'], as the list of its values in load order
    relationships,  \* self.data['relationships']
    outgoing,       \* self.outgoing
    incoming,       \* self.incoming
    guidance,       \* self.guidance
    pc,             \* "idle", or the loop a running query is in: "bfs", "gather"
    call,           \* the running (or last) query and its arguments
    queue,          \* find_path: the deque of (concept, path)
    visited,        \* find_path: the visited set
    stack,          \* prerequisites_for: the frames of gather_prereqs
    result,         \* the value the last query returned
    stdin,          \* coin_or_kb_server.py: the requests not yet read
    stdout,         \* the responses written
    request         \* the request main() is handling

vars == <<concepts, relationships, outgoing, incoming, guidance, pc, call, queue,
          visited, stack, result, stdin, stdout, request>>

store == <<concepts, relationships, outgoing, incoming, guidance>>

server == <<stdin, stdout, request>>

-----------------------------------------------------------------------------
(* Bounds of the model *)

\* most relationships the seed and the implementations declare together
MaxSeedRels == 2
\* largest max_depth given to find_path
MaxPathDepth == 2
\* find_path's default max_depth
DefaultMaxDepth == 5
\* most concepts of a seed whose texts vary
MaxTextConcepts == 2
\* search_concepts cuts a definition to this many characters
DefinitionCut == 200
\* most rules of a guidance file
MaxRules == 4
\* suggest_approach expands this many of the matched rules
TopRules == 3
\* suggest_approach keeps this many strengths of an algorithm
MaxStrengths == 3
\* most relationships the concepts of a solver seed declare
MaxSolveRels == 2
\* largest depth given to prerequisites_for
MaxPrereqDepth == 2

-----------------------------------------------------------------------------
(* Strings *)

\* str.lower(), one character
LowerChar(ch) ==
    CASE ch = "A" -> "a"
      [] ch = "B" -> "b"
      [] ch = "C" -> "c"
      [] ch = "D" -> "d"
      [] ch = "E" -> "e"
      [] ch = "F" -> "f"
      [] ch = "G" -> "g"
      [] ch = "H" -> "h"
      [] ch = "I" -> "i"
      [] ch = "J" -> "j"
      [] ch = "K" -> "k"
      [] ch = "L" -> "l"
      [] ch = "M" -> "m"
      [] ch = "N" -> "n"
      [] ch = "O" -> "o"
      [] ch = "P" -> "p"
      [] ch = "Q" -> "q"
      [] ch = "R" -> "r"
      [] ch = "S" -> "s"
      [] ch = "T" -> "t"
      [] ch = "U" -> "u"
      [] ch = "V" -> "v"
      [] ch = "W" -> "w"
      [] ch = "X" -> "x"
      [] ch = "Y" -> "y"
      [] ch = "Z" -> "z"
      [] OTHER -> ch

\* str.lower()
Lower(s) == [i \in 1..Len(s) |-> LowerChar(s[i])]

\* Python's `sub in s` on strings
In(sub, s) ==
    \E k \in 0..(Len(s) - Len(sub)) : \A i \in 1..Len(sub) : s[k + i] = sub[i]

\* Python's `'/' in s`
HasSlash(s) == \E i \in 1..Len(s) : s[i] = "/"

\* the elements of a sequence
Range(s) == {s[i] : i \in 1..Len(s)}

\* dict.get(key, default)
Get(d, key, default) == IF key \in DOMAIN d THEN d[key] ELSE default

\* the characters of the model in the order of their code points
CodePoints ==
    <<" ", "/", "1", "2", "3", "4",
      "A", "B", "C", "D", "E", "F", "G", "H", "I", "J", "K", "L", "M",
      "N", "O", "P", "Q", "R", "S", "T", "U", "V", "W", "X", "Y", "Z", "_",
      "a", "b", "c", "d", "e", "f", "g", "h", "i", "j", "k", "l", "m",
      "n", "o", "p", "q", "r", "s", "t", "u", "v", "w", "x", "y", "z">>

\* ord(ch)
Ord(ch) == CHOOSE i \in 1..Len(CodePoints) : CodePoints[i] = ch

\* s < t for two strings
RECURSIVE Before(_, _)
Before(s, t) ==
    IF t = <<>> THEN FALSE
    ELSE IF s = <<>> THEN TRUE
    ELSE IF Head(s) = Head(t) THEN Before(Tail(s), Tail(t))
    ELSE Ord(Head(s)) < Ord(Head(t))

-----------------------------------------------------------------------------
(* scripts/build-knowledge-graph.py: build_graph *)

RelTypes == {"requires", "solves", "contains", "generalizes", "alternative_to",
             "implemented_in"}

\* build_graph adding no reverse relationship
RECURSIVE ConceptRelationships_ForwardOnly(_, _)
ConceptRelationships_ForwardOnly(concept, i) ==
    IF i > Len(concept.relationships) THEN <<>>
    ELSE <<[from |-> concept.id, to |-> concept.relationships[i].target,
            type |-> concept.relationships[i].type]>>
         \o ConceptRelationships_ForwardOnly(concept, i + 1)

\* the relationships one seed concept contributes, from its i-th on
RECURSIVE ConceptRelationships(_, _)
ConceptRelationships(concept, i) ==
    IF i > Len(concept.relationships) THEN <<>>
    ELSE LET rel == concept.relationships[i]
             fwd == [from |-> concept.id, to |-> rel.target, type |-> rel.type]
             rev == [from |-> rel.target, to |-> concept.id, type |-> rel.type]
         IN  (IF rel.type = "alternative_to" THEN <<fwd, rev>> ELSE <<fwd>>)
             \o ConceptRelationships(concept, i + 1)

\* the first loop of build_graph, from the i-th seed concept on
RECURSIVE SeedRelationships(_, _)
SeedRelationships(seed, i) ==
    IF i > Len(seed) THEN <<>>
    ELSE ConceptRelationships(seed[i], 1) \o SeedRelationships(seed, i + 1)

\* the implemented_in relationships of one concept's implementations
ImplRelationships(concept_id, impls) ==
    [k \in 1..Len(impls) |->
        [from |-> concept_id,
         to   |-> impls[k].library \o <<"/">> \o impls[k].file,
         type |-> "implemented_in",
         meta |-> [brief |-> impls[k].brief]]]

\* the second loop of build_graph; implementations is the list of the dict's items
RECURSIVE AllImplRelationships(_, _)
AllImplRelationships(implementations, i) ==
    IF i > Len(implementations) THEN <<>>
    ELSE ImplRelationships(implementations[i].id, implementations[i].impls)
         \o AllImplRelationships(implementations, i + 1)

\* all_relationships
AllRelationships(seed, implementations) ==
    SeedRelationships(seed, 1) \o AllImplRelationships(implementations, 1)

\* target_info of one relationship
TargetInfo(rel) ==
    IF "meta" \in DOMAIN rel THEN [id |-> rel.to, meta |-> rel.meta]
    ELSE [id |-> rel.to]

\* the embedded list gathered without the test of the relationship's type
EmbeddedList_AnyType(all, cid, rel_type) ==
    LET mine == SelectSeq(all, LAMBDA r : r.from = cid)
    IN  [k \in 1..Len(mine) |-> TargetInfo(mine[k])]

\* entry['relationships'][rel_type] before the empty lists are removed
EmbeddedList(all, cid, rel_type) ==
    LET mine == SelectSeq(all, LAMBDA r : r.from = cid /\ r.type = rel_type)
    IN  [k \in 1..Len(mine) |-> TargetInfo(mine[k])]

\* entry['relationships']: the empty lists removed
EmbeddedRelationships(all, cid) ==
    [t \in {u \in RelTypes : EmbeddedList(all, cid, u) # <<>>} |->
        EmbeddedList(all, cid, t)]

\* str.strip(): the blanks at both ends removed
RECURSIVE Strip(_)
Strip(s) ==
    IF s = <<>> THEN s
    ELSE IF Head(s) = " " THEN Strip(Tail(s))
    ELSE IF s[Len(s)] = " " THEN Strip(SubSeq(s, 1, Len(s) - 1))
    ELSE s

\* graph['concepts'][cid]
Entry(concept, all) ==
    LET base == [id |-> concept.id, name |-> concept.name,
                 category |-> concept.category,
                 definition |-> Strip(concept.definition),
                 intuition |-> Strip(concept.intuition),
                 relationships |-> EmbeddedRelationships(all, concept.id)]
    IN  IF concept.aliases # <<>> THEN base @@ [aliases |-> concept.aliases]
        ELSE base

\* graph['concepts'], in the order of the seed
BuildConcepts(seed, all) == [k \in 1..Len(seed) |-> Entry(seed[k], all)]

-----------------------------------------------------------------------------
(* mcp-server/knowledge_graph.py: the store and its indices *)

ConceptIds == {concepts[k].id : k \in 1..Len(concepts)}

\* self.data['concepts'].get(cid, {})
ConceptOf(cid) ==
    IF cid \in ConceptIds
    THEN concepts[CHOOSE k \in 1..Len(concepts) : concepts[k].id = cid]
    ELSE << >>

\* self.data['concepts'].get(cid, {}).get('name', cid)
NameOf(cid) ==
    IF cid \in ConceptIds THEN Get(ConceptOf(cid), "name", cid) ELSE cid

\* A target of an embedded list is a record {id, meta?} or a bare string ID,
\* the latter kept as [bare |-> ID]: isinstance(r, dict)
IsDict(r) == "id" \in DOMAIN r

\* r['id'] if isinstance(r, dict) else r
TargetId(r) == IF IsDict(r) THEN r.id ELSE r.bare

\* concept.get('relationships', {}).get(rel_type, [])
Embedded(concept, rel_type) ==
    Get(Get(concept, "relationships", << >>), rel_type, <<>>)

\* an index that keeps the last relationship of a key only
IndexAppend_Overwrite(index, key, rel) ==
    IF key \in DOMAIN index THEN [index EXCEPT ![key] = <<rel>>]
    ELSE index @@ (key :> <<rel>>)

\* one `if key not in index: index[key] = []; index[key].append(rel)`
IndexAppend(index, key, rel) ==
    IF key \in DOMAIN index THEN [index EXCEPT ![key] = Append(@, rel)]
    ELSE index @@ (key :> <<rel>>)

\* _build_indices: self.outgoing after the loop has run from the i-th relationship on
RECURSIVE BuildOutgoing(_, _, _)
BuildOutgoing(rels, i, index) ==
    IF i > Len(rels) THEN index
    ELSE BuildOutgoing(rels, i + 1, IndexAppend(index, rels[i].from, rels[i]))

\* _build_indices: self.incoming after the loop has run from the i-th relationship on
RECURSIVE BuildIncoming(_, _, _)
BuildIncoming(rels, i, index) ==
    IF i > Len(rels) THEN index
    ELSE BuildIncoming(rels, i + 1, IndexAppend(index, rels[i].to, rels[i]))

-----------------------------------------------------------------------------
(* The seeds the stores are built from *)

Str(ch) == <<ch>>

NoConcept == Str("d")              \* an ID no seed declares
FileRef == <<"l", "/", "f">>       \* what build_graph makes of library l, file f

SeedConcept(id, name, category, aliases, definition, intuition, rels) ==
    [id |-> id, name |-> name, category |-> category, aliases |-> aliases,
     definition |-> definition, intuition |-> intuition, relationships |-> rels]

\* the implementations dict: no entry, or one file for concept id
Implementations(id, n) ==
    IF n = 0 THEN <<>>
    ELSE <<[id |-> id,
            impls |-> <<[library |-> Str("l"), file |-> Str("f"), brief |-> Str("b")]>>]>>

\* Graph seeds: concepts a, b, c and their declared relationships,
\* to concepts, to an undeclared ID and to a file reference.
GraphTargets == {Str("a"), Str("b"), Str("c"), NoConcept, FileRef}
GraphRels == [type : {"requires", "alternative_to"}, target : GraphTargets]

GraphSeed(r1, r2, r3) ==
    << SeedConcept(Str("a"), Str("A"), "algorithm", <<>>, <<>>, <<>>, r1),
       SeedConcept(Str("b"), Str("B"), "algorithm", <<>>, <<>>, <<>>, r2),
       SeedConcept(Str("c"), Str("C"), "problem_class", <<>>, <<>>, <<>>, r3) >>

\* self.guidance when there is no guidance file: {}
NoGuidance == << >>

\* the state after KnowledgeGraph.__init__ has loaded what build_graph wrote
Loaded(seed, implementations) ==
    LET all == AllRelationships(seed, implementations)
    IN  /\ concepts = BuildConcepts(seed, all)
        /\ relationships = all
        /\ outgoing = BuildOutgoing(all, 1, << >>)
        /\ incoming = BuildIncoming(all, 1, << >>)

Idle ==
    /\ pc = "idle"
    /\ call = [op |-> "none"]
    /\ queue = <<>>
    /\ visited = {}
    /\ stack = <<>>
    /\ result = [op |-> "none"]

\* the graph is queried directly, not through the server
NoRequest == [method |-> "none"]

Offline ==
    /\ stdin = <<>>
    /\ stdout = <<>>
    /\ request = NoRequest

\* no query is running and the last value has been taken
Ready == pc = "idle" /\ result.op = "none"

InitGraph ==
    /\ \E n0 \in 0..1 :
       \E n1 \in 0..(MaxSeedRels - n0) :
       \E n2 \in 0..(MaxSeedRels - n0 - n1) :
       \E n3 \in 0..(MaxSeedRels - n0 - n1 - n2) :
       \E r1 \in [1..n1 -> GraphRels], r2 \in [1..n2 -> GraphRels],
          r3 \in [1..n3 -> GraphRels] :
            Loaded(GraphSeed(r1, r2, r3), Implementations(Str("a"), n0))
    /\ guidance = NoGuidance
    /\ Idle
    /\ Offline

\* Text seeds: up to MaxTextConcepts concepts whose IDs contain one another or
\* differ in case only, with names, aliases, definitions and intuitions that share
\* substrings with the IDs and the queries. The first requires the last and has
\* one implementation.
TextIds == {Str("b"), <<"a", "b">>, <<"A", "B">>}
TextAliases == { <<>>, <<Str("c")>>, <<Str("C"), Str("c")>>, <<Str("b")>> }
TextFields ==
    { [name |-> Str("C"), definition |-> <<>>, intuition |-> <<>>],
      [name |-> Str("a"), definition |-> <<"c", " ">>, intuition |-> <<>>],
      [name |-> Str("a"), definition |-> <<>>, intuition |-> <<"B", "a">>] }

TextSeed(ids, aliases, fields) ==
    [k \in 1..Len(ids) |->
        SeedConcept(ids[k], fields[k].name,
                    IF k = 1 THEN "algorithm" ELSE "problem_class",
                    aliases[k], fields[k].definition, fields[k].intuition,
                    IF k = 1 /\ Len(ids) > 1
                    THEN <<[type |-> "requires", target |-> ids[Len(ids)]]>>
                    ELSE <<>>)]

InitText ==
    /\ \E n \in 1..MaxTextConcepts :
       \E ids \in {f \in [1..n -> TextIds] : \A i, j \in 1..n : f[i] = f[j] => i = j},
          aliases \in [1..n -> TextAliases], fields \in [1..n -> TextFields] :
            Loaded(TextSeed(ids, aliases, fields), Implementations(ids[1], 1))
    /\ guidance = NoGuidance
    /\ Idle
    /\ Offline

\* Solver seeds: the algorithm simplex_method with the alias simplex, the
\* problem class LP and, between them or not at all, a concept nlp that is an
\* algorithm or a problem class. The algorithms declare what they solve and
\* what they are alternatives to.
SimplexMethod == <<"s", "i", "m", "p", "l", "e", "x", "_", "m", "e", "t", "h", "o", "d">>
Simplex == <<"s", "i", "m", "p", "l", "e", "x">>
LP == <<"L", "P">>
NLP == <<"n", "l", "p">>

SolveRels ==
    { [type |-> "solves", target |-> LP], [type |-> "solves", target |-> NLP],
      [type |-> "alternative_to", target |-> SimplexMethod],
      [type |-> "alternative_to", target |-> LP] }

SolveSeed(r1, r2, others) ==
    << SeedConcept(SimplexMethod, Str("S"), "algorithm", <<Simplex>>, <<>>, <<>>, r1) >>
    \o [k \in 1..Len(others) |->
          SeedConcept(NLP, Str("Q"), others[k].category, others[k].aliases,
                      <<>>, <<>>, r2)]
    \o << SeedConcept(LP, <<"L", "i", "n">>, "problem_class", <<>>, <<>>, <<>>, <<>>) >>

\* the concepts as a JSON file may hold them: every target without meta a bare
\* string instead of a record
BareTargets(entries) ==
    [k \in 1..Len(entries) |->
        [entries[k] EXCEPT !.relationships =
            [t \in DOMAIN @ |->
                [i \in 1..Len(@[t]) |->
                    IF "meta" \in DOMAIN @[t][i] THEN @[t][i]
                    ELSE [bare |-> @[t][i].id]]]]]

InitSolve ==
    /\ \E n \in 0..1, n0 \in 0..1, n1 \in 0..MaxSolveRels :
       \E n2 \in 0..(IF n = 0 THEN 0 ELSE MaxSolveRels - n1) :
       \E r1 \in [1..n1 -> SolveRels], r2 \in [1..n2 -> SolveRels],
          others \in [1..n -> [category : {"algorithm", "problem_class"},
                               aliases : {<<>>, <<Str("Z")>>}]],
          bare \in BOOLEAN :
            LET seed == SolveSeed(r1, r2, others)
                all == AllRelationships(seed, Implementations(SimplexMethod, n0))
                entries == BuildConcepts(seed, all)
            IN  /\ concepts = (IF bare THEN BareTargets(entries) ELSE entries)
                /\ relationships = all
                /\ outgoing = BuildOutgoing(all, 1, << >>)
                /\ incoming = BuildIncoming(all, 1, << >>)
    /\ guidance = NoGuidance
    /\ Idle
    /\ Offline

\* Guidance files: an algorithms table that is absent, holds only
\* simplex_method and spatial_branch_and_bound, or holds the six algorithms of
\* the fallback table; and up to MaxRules rules, each with the one indicator
\* "LP" or the two indicators "S" and "sp lp", and with one of three
\* recommendations, or with the indicator "LP" and no recommendation.
InteriorPointMethod ==
    <<"i", "n", "t", "e", "r", "i", "o", "r", "_", "p", "o", "i", "n", "t", "_", "m", "e", "t", "h", "o", "d">>
ActiveSetMethod ==
    <<"a", "c", "t", "i", "v", "e", "_", "s", "e", "t", "_", "m", "e", "t", "h", "o", "d">>
BranchAndBound ==
    <<"b", "r", "a", "n", "c", "h", "_", "a", "n", "d", "_", "b", "o", "u", "n", "d">>
OuterApproximation ==
    <<"o", "u", "t", "e", "r", "_", "a", "p", "p", "r", "o", "x", "i", "m", "a", "t", "i", "o", "n">>
SpatialBranchAndBound ==
    <<"s", "p", "a", "t", "i", "a", "l", "_", "b", "r", "a", "n", "c", "h", "_", "a", "n", "d", "_", "b", "o", "u", "n", "d">>

FullData ==
    [when_to_use |-> <<Str("w")>>,
     strengths |-> <<Str("1"), Str("2"), Str("3"), Str("4")>>,
     complexity |-> [typical |-> Str("n")]]

AlgorithmTables ==
    { << >>,
      << [id |-> SimplexMethod, data |-> [strengths |-> <<Str("1")>>]],
         [id |-> SpatialBranchAndBound, data |-> FullData] >>,
      << [id |-> SimplexMethod, data |-> FullData],
         [id |-> InteriorPointMethod, data |-> FullData],
         [id |-> ActiveSetMethod, data |-> FullData],
         [id |-> BranchAndBound, data |-> FullData],
         [id |-> OuterApproximation, data |-> FullData],
         [id |-> SpatialBranchAndBound, data |-> FullData] >> }

RuleNames == <<"r1", "r2", "r3", "r4", "r5">>
RuleIndicators == { <<LP>>, <<Str("S"), <<"s", "p", " ", "l", "p">> >> }
Recommendations == {SimplexMethod, InteriorPointMethod, BranchAndBound}
\* a rule's indicators and its recommendation (<<>>: none)
RuleChoices ==
    (RuleIndicators \X Recommendations) \cup {<< <<LP>>, <<>> >>}

\* one rule of problem_characteristics, with its recommendation or without
Rule(name, indicators, recommendation) ==
    IF recommendation = <<>>
    THEN [name |-> name, indicators |-> indicators, rationale |-> Str("y")]
    ELSE [name |-> name, indicators |-> indicators, rationale |-> Str("y"),
          recommendation |-> recommendation]

\* the store when there is no graph file
EmptyStore ==
    /\ concepts = <<>>
    /\ relationships = <<>>
    /\ outgoing = BuildOutgoing(<<>>, 1, << >>)
    /\ incoming = BuildIncoming(<<>>, 1, << >>)

InitSuggest ==
    /\ EmptyStore
    /\ \/ guidance = NoGuidance
       \/ \E n \in 0..MaxRules, table \in AlgorithmTables :
          \E choices \in [1..n -> RuleChoices] :
               guidance =
                 [problem_characteristics |->
                     [k \in 1..n |-> Rule(RuleNames[k], choices[k][1], choices[k][2])]]
                 @@ (IF table = << >> THEN << >> ELSE [algorithms |-> table])
    /\ Idle
    /\ Offline

\* Frame seeds: the text seeds with the aliases fixed (the first concept has
\* the alias c, the others none), loaded without a guidance file or with one
\* that has a rule and an algorithm.
MaxFrameConcepts == 2

FrameGuidance ==
    { NoGuidance,
      [problem_characteristics |-> <<Rule("r1", <<LP>>, SimplexMethod)>>,
       algorithms |-> <<[id |-> SimplexMethod, data |-> FullData]>>] }

InitFrame ==
    /\ \E n \in 1..MaxFrameConcepts :
       \E ids \in {f \in [1..n -> TextIds] : \A i, j \in 1..n : f[i] = f[j] => i = j},
          fields \in [1..n -> TextFields] :
            Loaded(TextSeed(ids, [k \in 1..n |-> IF k = 1 THEN <<Str("c")>> ELSE <<>>],
                            fields),
                   Implementations(ids[1], 1))
    /\ guidance \in FrameGuidance
    /\ Idle
    /\ Offline

\* Alias seeds: up to MaxAliasConcepts concepts without relationships, with IDs
\* that contain one another or not, each with no alias or with one alias that
\* is a substring of some ID (a) or of none (z).
MaxAliasConcepts == 2

AliasIds == {Str("c"), <<"a", "b">>, <<"c", "b">>}
AliasLists == { <<>>, <<Str("a")>>, <<Str("z")>> }

AliasSeed(ids, aliases) ==
    [k \in 1..Len(ids) |->
        SeedConcept(ids[k], ids[k], "algorithm", aliases[k], <<>>, <<>>, <<>>)]

InitAlias ==
    /\ \E n \in 1..MaxAliasConcepts :
       \E ids \in {f \in [1..n -> AliasIds] : \A i, j \in 1..n : f[i] = f[j] => i = j},
          aliases \in [1..n -> AliasLists] :
            Loaded(AliasSeed(ids, aliases), <<>>)
    /\ guidance = NoGuidance
    /\ Idle
    /\ Offline

\* Server input: up to MaxRequests messages on stdin, each a request with an
\* id (its position) or without, a body that is not JSON, or the empty
\* request; the graph loaded is a, b, c with a requiring b.
MaxRequests == 2

\* JSON-RPC's code for an unknown method
MethodNotFound == -32601

\* the params of the tools/call requests
ToolCalls ==
    { [name |-> "explore_concept", arguments |-> [concept_id |-> Str("A")]],
      [name |-> "find_path",
       arguments |-> [from_concept |-> Str("a"), to_concept |-> Str("b"),
                      max_depth |-> DefaultMaxDepth]],
      [name |-> "find_path",
       arguments |-> [from_concept |-> Str("b"), to_concept |-> Str("a"),
                      max_depth |-> DefaultMaxDepth]],
      [name |-> "prerequisites_for", arguments |-> [concept_id |-> Str("a"), depth |-> 1]],
      [name |-> "prerequisites_for", arguments |-> [concept_id |-> Str("a"), depth |-> -1]],
      [name |-> "list_concepts", arguments |-> << >>],
      [name |-> "no_such_tool", arguments |-> << >>] }

\* what a client writes: requests (without their id), a body json.loads
\* rejects, and {}
Bodies ==
    {[method |-> m, params |-> << >>] :
        m \in {"initialize", "tools/list", "resources/list",
                "notifications/initialized", "shutdown"}}
    \cup {[method |-> "resources/read", params |-> [uri |-> "coinor://concepts"]]}
    \cup {[method |-> "tools/call", params |-> p] : p \in ToolCalls}
    \cup {[malformed |-> TRUE], << >>}

InitServer ==
    /\ Loaded(GraphSeed(<<[type |-> "requires", target |-> Str("b")]>>, <<>>, <<>>),
              <<>>)
    /\ guidance = NoGuidance
    /\ Idle
    /\ \E n \in 1..MaxRequests :
       \E bodies \in [1..n -> Bodies], ids \in [1..n -> BOOLEAN] :
          stdin = [k \in 1..n |->
                      IF ids[k] /\ "method" \in DOMAIN bodies[k]
                      THEN bodies[k] @@ [id |-> k]
                      ELSE bodies[k]]
    /\ stdout = <<>>
    /\ request = NoRequest

-----------------------------------------------------------------------------
(* find_path *)

\* an edge with its endpoints the wrong way round
PathEdge_Swapped(current, rel) ==
    [from |-> rel.to, from_name |-> NameOf(rel.to), relationship |-> rel.type,
     to |-> current, to_name |-> NameOf(current)]

\* one edge of a returned path
PathEdge(current, rel) ==
    [from |-> current, from_name |-> NameOf(current), relationship |-> rel.type,
     to |-> rel.to, to_name |-> NameOf(rel.to)]

\* Found with the length of the path before its last edge
Found_LengthOfOldPath(new_path) ==
    [op |-> "find_path", kind |-> "ok", found |-> TRUE, path |-> new_path,
     length |-> Len(new_path) - 1]

\* the value find_path returns from inside its loop
Found(new_path) ==
    [op |-> "find_path", kind |-> "ok", found |-> TRUE, path |-> new_path,
     length |-> Len(new_path)]

\* Expand following every relationship to a target not yet visited: neither
\* the file references nor the undeclared IDs are left out
RECURSIVE Expand_NoFilter(_, _, _, _, _, _)
Expand_NoFilter(rels, i, current, path, vis, q) ==
    IF i > Len(rels) THEN [done |-> FALSE, visited |-> vis, queue |-> q]
    ELSE LET rel == rels[i]
             target == rel.to
             new_path == Append(path, PathEdge(current, rel))
         IN  IF target = call.to_concept
             THEN [done |-> TRUE, value |-> Found(new_path)]
             ELSE IF target \notin vis
                  THEN Expand_NoFilter(rels, i + 1, current, path, vis \cup {target},
                                       Append(q, [node |-> target, path |-> new_path]))
             ELSE Expand_NoFilter(rels, i + 1, current, path, vis, q)

\* Expand without the test `target not in visited`
RECURSIVE Expand_Revisits(_, _, _, _, _, _)
Expand_Revisits(rels, i, current, path, vis, q) ==
    IF i > Len(rels) THEN [done |-> FALSE, visited |-> vis, queue |-> q]
    ELSE LET rel == rels[i]
             target == rel.to
             new_path == Append(path, PathEdge(current, rel))
         IN  IF HasSlash(target) THEN Expand_Revisits(rels, i + 1, current, path, vis, q)
             ELSE IF target = call.to_concept
                  THEN [done |-> TRUE, value |-> Found(new_path)]
             ELSE IF target \in ConceptIds
                  THEN Expand_Revisits(rels, i + 1, current, path, vis \cup {target},
                                       Append(q, [node |-> target, path |-> new_path]))
             ELSE Expand_Revisits(rels, i + 1, current, path, vis, q)

\* The `for rel in self.outgoing.get(current, [])` loop from the i-th relationship
\* on: it returns (done, with the value) or runs to its end (with the new visited
\* set and queue).
RECURSIVE Expand(_, _, _, _, _, _)
Expand(rels, i, current, path, vis, q) ==
    IF i > Len(rels) THEN [done |-> FALSE, visited |-> vis, queue |-> q]
    ELSE LET rel == rels[i]
             target == rel.to
             new_path == Append(path, PathEdge(current, rel))
         IN  IF HasSlash(target) THEN Expand(rels, i + 1, current, path, vis, q)
             ELSE IF target = call.to_concept
                  THEN [done |-> TRUE, value |-> Found(new_path)]
             ELSE IF target \notin vis /\ target \in ConceptIds
                  THEN Expand(rels, i + 1, current, path, vis \cup {target},
                              Append(q, [node |-> target, path |-> new_path]))
             ELSE Expand(rels, i + 1, current, path, vis, q)

\* the depth test off by one
DepthReached_OffByOne(path, max_depth) == Len(path) > max_depth

\* `if len(path) >= max_depth: continue`
DepthReached(path, max_depth) == Len(path) >= max_depth

\* the arguments find_path is called with
PathArgs == ConceptIds \cup {NoConcept, Str("A")}

PathDepths == (0..MaxPathDepth) \cup {DefaultMaxDepth}

\* find_path answering a query from a concept to itself with the empty path
FindPath_EmptySelfPath(from_concept, to_concept, max_depth) ==
    /\ Ready
    /\ call' = [op |-> "find_path", from_concept |-> from_concept,
                to_concept |-> to_concept, max_depth |-> max_depth]
    /\ IF from_concept \notin ConceptIds
       THEN /\ result' = [op |-> "find_path", kind |-> "error", error |-> "source"]
            /\ UNCHANGED <<pc, queue, visited>>
       ELSE IF to_concept \notin ConceptIds
       THEN /\ result' = [op |-> "find_path", kind |-> "error", error |-> "target"]
            /\ UNCHANGED <<pc, queue, visited>>
       ELSE IF from_concept = to_concept
       THEN /\ result' = Found(<<>>)
            /\ UNCHANGED <<pc, queue, visited>>
       ELSE /\ pc' = "bfs"
            /\ queue' = <<[node |-> from_concept, path |-> <<>>]>>
            /\ visited' = {from_concept}
            /\ result' = [op |-> "find_path", kind |-> "running"]
    /\ UNCHANGED <<store, server, stack>>

\* a concept whose ID contains the string, case ignored, if there is one
Fuzzy(cid) ==
    IF cid \notin ConceptIds /\ \E c \in ConceptIds : In(Lower(cid), Lower(c))
    THEN CHOOSE c \in ConceptIds : In(Lower(cid), Lower(c))
    ELSE cid

\* find_path resolving its endpoints as explore_concept does
FindPath_FuzzyEndpoints(from_concept, to_concept, max_depth) ==
    /\ Ready
    /\ call' = [op |-> "find_path", from_concept |-> from_concept,
                to_concept |-> to_concept, max_depth |-> max_depth]
    /\ IF Fuzzy(from_concept) \notin ConceptIds
       THEN /\ result' = [op |-> "find_path", kind |-> "error", error |-> "source"]
            /\ UNCHANGED <<pc, queue, visited>>
       ELSE IF Fuzzy(to_concept) \notin ConceptIds
       THEN /\ result' = [op |-> "find_path", kind |-> "error", error |-> "target"]
            /\ UNCHANGED <<pc, queue, visited>>
       ELSE /\ pc' = "bfs"
            /\ queue' = <<[node |-> Fuzzy(from_concept), path |-> <<>>]>>
            /\ visited' = {Fuzzy(from_concept)}
            /\ result' = [op |-> "find_path", kind |-> "running"]
    /\ UNCHANGED <<store, server, stack>>

\* find_path up to its loop
FindPath(from_concept, to_concept, max_depth) ==
    /\ Ready
    /\ call' = [op |-> "find_path", from_concept |-> from_concept,
                to_concept |-> to_concept, max_depth |-> max_depth]
    /\ IF from_concept \notin ConceptIds
       THEN /\ result' = [op |-> "find_path", kind |-> "error", error |-> "source"]
            /\ UNCHANGED <<pc, queue, visited>>
       ELSE IF to_concept \notin ConceptIds
       THEN /\ result' = [op |-> "find_path", kind |-> "error", error |-> "target"]
            /\ UNCHANGED <<pc, queue, visited>>
       ELSE /\ pc' = "bfs"
            /\ queue' = <<[node |-> from_concept, path |-> <<>>]>>
            /\ visited' = {from_concept}
            /\ result' = [op |-> "find_path", kind |-> "running"]
    /\ UNCHANGED <<store, server, stack>>

\* one turn of `while queue`
BfsStep ==
    /\ pc = "bfs"
    /\ queue # <<>>
    /\ LET current == Head(queue).node
           path == Head(queue).path
           scan == Expand(Get(outgoing, current, <<>>), 1, current, path, visited,
                          Tail(queue))
       IN  IF DepthReached(path, call.max_depth)
           THEN /\ queue' = Tail(queue)
                /\ UNCHANGED <<pc, visited, result>>
           ELSE IF scan.done
           THEN /\ result' = scan.value
                /\ pc' = "idle"
                /\ queue' = <<>>
                /\ visited' = {}
           ELSE /\ queue' = scan.queue
                /\ visited' = scan.visited
                /\ UNCHANGED <<pc, result>>
    /\ UNCHANGED <<store, server, call, stack>>

\* the loop ends with the queue empty
BfsExhausted ==
    /\ pc = "bfs"
    /\ queue = <<>>
    /\ result' = [op |-> "find_path", kind |-> "ok", found |-> FALSE]
    /\ pc' = "idle"
    /\ visited' = {}
    /\ UNCHANGED <<store, server, call, queue, stack>>

-----------------------------------------------------------------------------
(* prerequisites_for *)

\* prereq_entry, without and with its nested list
PrereqEntry(target_id) ==
    LET target_concept == ConceptOf(target_id)
    IN  [id |-> target_id, name |-> Get(target_concept, "name", target_id),
         category |-> Get(target_concept, "category", "unknown")]

\* `if sub_prereqs and sub_prereqs.get('requires')`: sub_prereqs is None (no
\* field "requires" here), {} or {'requires': [...]}
WithSub(entry, sub_prereqs) ==
    IF Get(sub_prereqs, "requires", <<>>) # <<>>
    THEN entry @@ [requires |-> sub_prereqs.requires]
    ELSE entry

\* `return {'requires': prereqs} if prereqs else {}`
GatherReturn(prereqs) ==
    IF prereqs # <<>> THEN [requires |-> prereqs] ELSE << >>

\* gather_prereqs without its cycle guard
GatherRefuses_DepthOnly(cid, current_depth, seen) ==
    current_depth > call.depth

\* gather_prereqs refusing one level later
GatherRefuses_OneDeeper(cid, current_depth, seen) ==
    current_depth > call.depth + 1 \/ cid \in seen

\* the first lines of gather_prereqs: whether the call returns None at once
GatherRefuses(cid, current_depth, seen) ==
    current_depth > call.depth \/ cid \in seen

\* the frame of a call of gather_prereqs that got past its first lines:
\* seen is the caller's visited.copy() with cid added
Frame(cid, current_depth, seen) ==
    [cid |-> cid, depth |-> current_depth, visited |-> seen \cup {cid}, i |-> 1,
     prereqs |-> <<>>]

\* the arguments prerequisites_for is called with
PrereqArgs == ConceptIds \cup {NoConcept}

\* prerequisites_for up to the first call of gather_prereqs
PrerequisitesFor(concept_id, depth) ==
    /\ Ready
    /\ call' = [op |-> "prerequisites_for", concept_id |-> concept_id, depth |-> depth]
    /\ IF concept_id \notin ConceptIds
       THEN /\ result' = [op |-> "prerequisites_for", kind |-> "error"]
            /\ UNCHANGED <<pc, stack>>
       ELSE IF 0 > depth
       \* gather_prereqs returns None and result.update(None) raises TypeError
       THEN /\ result' = [op |-> "prerequisites_for", kind |-> "raise",
                          exception |-> "TypeError"]
            /\ UNCHANGED <<pc, stack>>
       ELSE /\ pc' = "gather"
            /\ stack' = <<Frame(concept_id, 0, {})>>
            /\ result' = [op |-> "prerequisites_for", kind |-> "running"]
    /\ UNCHANGED <<store, server, queue, visited>>

\* the innermost call of gather_prereqs and the list it walks
Top == stack[Len(stack)]
TopRequires == Embedded(ConceptOf(Top.cid), "requires")

\* the caller's frame after the callee returned sub_prereqs for its current target
Resume(frame, target_id, sub_prereqs) ==
    [frame EXCEPT !.i = @ + 1,
                  !.prereqs = Append(@, WithSub(PrereqEntry(target_id), sub_prereqs))]

\* one turn of the `for rel in ...requires` loop of the innermost call
GatherStep ==
    /\ pc = "gather"
    /\ Top.i <= Len(TopRequires)
    /\ LET target_id == TargetId(TopRequires[Top.i])
           n == Len(stack)
       IN  IF HasSlash(target_id)
           THEN stack' = [stack EXCEPT ![n].i = @ + 1]
           ELSE IF GatherRefuses(target_id, Top.depth + 1, Top.visited)
           THEN stack' = [stack EXCEPT ![n] = Resume(@, target_id, [none |-> TRUE])]
           ELSE stack' = Append(stack, Frame(target_id, Top.depth + 1, Top.visited))
    /\ UNCHANGED <<store, server, pc, call, queue, visited, result>>

\* the innermost call returns to its caller
GatherReturnStep ==
    /\ pc = "gather"
    /\ Top.i > Len(TopRequires)
    /\ LET n == Len(stack)
           value == GatherReturn(Top.prereqs)
       IN  IF n = 1
           THEN /\ result' = [op |-> "prerequisites_for", kind |-> "ok",
                              concept |-> call.concept_id,
                              name |-> NameOf(call.concept_id),
                              depth |-> call.depth] @@ value
                /\ pc' = "idle"
                /\ stack' = <<>>
           ELSE /\ stack' = [SubSeq(stack, 1, n - 1) EXCEPT
                                ![n - 1] = Resume(@, Top.cid, value)]
                /\ UNCHANGED <<pc, result>>
    /\ UNCHANGED <<store, server, call, queue, visited>>

-----------------------------------------------------------------------------
(* explore_concept *)

\* the position of a concept in the store
IndexOf(cid) == CHOOSE k \in 1..Len(concepts) : concepts[k].id = cid

\* the inner loop `for alias in c['aliases']`: some alias equals the query
AliasEquals(query, aliases) ==
    \E k \in 1..Len(aliases) : Lower(query) = Lower(aliases[k])

\* The fuzzy loop of explore_concept from the i-th concept on. concept_id is the
\* variable the loop compares with, which an alias match overwrites; matched is
\* the position of the concept found so far (0: none).
RECURSIVE ExploreScan(_, _, _)
ExploreScan(i, concept_id, matched) ==
    IF i > Len(concepts) THEN [matched |-> matched, concept_id |-> concept_id]
    ELSE LET c == concepts[i]
         IN  IF In(Lower(concept_id), Lower(c.id))
             THEN [matched |-> i, concept_id |-> c.id]
             ELSE IF AliasEquals(concept_id, Get(c, "aliases", <<>>))
             THEN ExploreScan(i + 1, c.id, i)
             ELSE ExploreScan(i + 1, concept_id, matched)

\* explore_concept trying the fuzzy loop before the exact ID
ExploreResolve_FuzzyFirst(concept_id) ==
    LET scan == ExploreScan(1, concept_id, 0)
    IN  IF scan.matched # 0 THEN scan
        ELSE IF concept_id \in ConceptIds
        THEN [matched |-> IndexOf(concept_id), concept_id |-> concept_id]
        ELSE scan

\* lines 80-93 of explore_concept: the concept found (0: none) and concept_id
ExploreResolve(concept_id) ==
    IF concept_id \in ConceptIds
    THEN [matched |-> IndexOf(concept_id), concept_id |-> concept_id]
    ELSE ExploreScan(1, concept_id, 0)

\* used_by without the test of the relationship's type
RECURSIVE UsedBy_AnyType(_, _)
UsedBy_AnyType(rels, i) ==
    IF i > Len(rels) THEN <<>>
    ELSE <<[id |-> rels[i].from, name |-> NameOf(rels[i].from)]>>
         \o UsedBy_AnyType(rels, i + 1)

\* result['used_by'], from the i-th incoming relationship on
RECURSIVE UsedBy(_, _)
UsedBy(rels, i) ==
    IF i > Len(rels) THEN <<>>
    ELSE (IF rels[i].type = "requires"
          THEN <<[id |-> rels[i].from, name |-> NameOf(rels[i].from)]>>
          ELSE <<>>) \o UsedBy(rels, i + 1)

\* the strings the text queries are called with
Queries == {<<>>, Str("a"), Str("b"), Str("B"), Str("c"), <<"a", "b">>}

\* explore_concept writing used_by into the stored concept instead of a copy
ExploreConcept_InPlace(concept_id) ==
    /\ Ready
    /\ call' = [op |-> "explore", concept_id |-> concept_id]
    /\ LET found == ExploreResolve(concept_id)
           used_by == UsedBy(Get(incoming, found.concept_id, <<>>), 1)
       IN  IF found.matched = 0
           THEN /\ result' = [op |-> "explore", kind |-> "error",
                              error |-> found.concept_id]
                /\ UNCHANGED concepts
           ELSE /\ result' = [op |-> "explore", kind |-> "ok",
                              id |-> found.concept_id,
                              concept |-> concepts[found.matched],
                              used_by |-> used_by]
                /\ concepts' = [concepts EXCEPT ![found.matched] =
                                    [used_by |-> used_by] @@ @]
    /\ UNCHANGED <<relationships, outgoing, incoming, guidance, server, pc, queue,
                   visited, stack>>

\* explore_concept: `result = dict(concept)` is a copy, the store is only read
ExploreConcept(concept_id) ==
    /\ Ready
    /\ call' = [op |-> "explore", concept_id |-> concept_id]
    /\ LET found == ExploreResolve(concept_id)
       IN  IF found.matched = 0
           THEN result' = [op |-> "explore", kind |-> "error",
                           error |-> found.concept_id]
           ELSE result' = [op |-> "explore", kind |-> "ok",
                           id |-> found.concept_id,
                           concept |-> concepts[found.matched],
                           used_by |-> UsedBy(Get(incoming, found.concept_id, <<>>), 1)]
    /\ UNCHANGED <<store, server, pc, queue, visited, stack>>

-----------------------------------------------------------------------------
(* implementations_of and compare_algorithms *)

\* `for cid in concepts: if query.lower() in cid.lower(): ... break`, from the
\* i-th concept on: the position of the first match (0: none)
RECURSIVE SubstringScan(_, _)
SubstringScan(i, query) ==
    IF i > Len(concepts) THEN 0
    ELSE IF In(Lower(query), Lower(concepts[i].id)) THEN i
    ELSE SubstringScan(i + 1, query)

\* lines 212-222 of implementations_of, 357-371 of compare_algorithms
SubstringResolve(query) ==
    IF query \in ConceptIds THEN IndexOf(query) ELSE SubstringScan(1, query)

\* one entry of implementations
Implementation(rel) ==
    IF IsDict(rel) /\ "meta" \in DOMAIN rel
    THEN [reference |-> TargetId(rel), brief |-> Get(rel.meta, "brief", <<>>)]
    ELSE [reference |-> TargetId(rel)]

ImplementationsOf(concept_id) ==
    /\ Ready
    /\ call' = [op |-> "implementations_of", concept_id |-> concept_id]
    /\ LET matched == SubstringResolve(concept_id)
           concept == concepts[matched]
           rels == Embedded(concept, "implemented_in")
       IN  IF matched = 0
           THEN result' = [op |-> "implementations_of", kind |-> "error",
                           error |-> concept_id]
           ELSE result' = [op |-> "implementations_of", kind |-> "ok",
                           concept |-> concept.id,
                           name |-> Get(concept, "name", concept.id),
                           implementation_count |-> Len(rels),
                           implementations |->
                               [k \in 1..Len(rels) |-> Implementation(rels[k])]]
    /\ UNCHANGED <<store, server, pc, queue, visited, stack>>

\* get_targets taking the targets of every relationship type
Targets_AnyType(concept, rel_type) ==
    UNION { {TargetId(Embedded(concept, t)[k]) : k \in 1..Len(Embedded(concept, t))} :
            t \in RelTypes }

\* get_targets, as the set the caller makes of it
Targets(concept, rel_type) ==
    {TargetId(Embedded(concept, rel_type)[k]) :
        k \in 1..Len(Embedded(concept, rel_type))}

\* result['algorithm_1'], result['algorithm_2']
Algorithm(concept) ==
    [id |-> concept.id, name |-> Get(concept, "name", concept.id),
     intuition |-> Get(concept, "intuition", <<>>)]

\* The lists made of sets are kept as the sets: list(set) fixes no order.
CompareAlgorithms(algo1, algo2) ==
    /\ Ready
    /\ call' = [op |-> "compare_algorithms", algo1 |-> algo1, algo2 |-> algo2]
    /\ LET m1 == SubstringResolve(algo1)
           m2 == SubstringResolve(algo2)
           c1 == concepts[m1]
           c2 == concepts[m2]
       IN  IF m1 = 0
           THEN result' = [op |-> "compare_algorithms", kind |-> "error",
                           error |-> algo1]
           ELSE IF m2 = 0
           THEN result' = [op |-> "compare_algorithms", kind |-> "error",
                           error |-> algo2]
           ELSE result' =
                  [op |-> "compare_algorithms", kind |-> "ok",
                   algorithm_1 |-> Algorithm(c1), algorithm_2 |-> Algorithm(c2),
                   both_solve |-> Targets(c1, "solves") \cap Targets(c2, "solves"),
                   only_1_solves |-> Targets(c1, "solves") \ Targets(c2, "solves"),
                   only_2_solves |-> Targets(c2, "solves") \ Targets(c1, "solves"),
                   shared_requirements |->
                       Targets(c1, "requires") \cap Targets(c2, "requires"),
                   unique_to_1 |-> Targets(c1, "requires") \ Targets(c2, "requires"),
                   unique_to_2 |-> Targets(c2, "requires") \ Targets(c1, "requires"),
                   are_alternatives |-> c2.id \in Targets(c1, "alternative_to")]
    /\ UNCHANGED <<store, server, pc, queue, visited, stack>>

-----------------------------------------------------------------------------
(* solvers_for *)

\* the `for alias in concept.get('aliases', [])` loop: some alias, lowered, is
\* the query
AliasIs(query, aliases) == \E k \in 1..Len(aliases) : query = Lower(aliases[k])

\* solvers_for with the category of the concepts left out of the test
RECURSIVE ProblemScan_AnyCategory(_, _)
ProblemScan_AnyCategory(i, query) ==
    IF i > Len(concepts) THEN 0
    ELSE LET concept == concepts[i]
         IN  IF \/ In(query, Lower(concept.id))
                \/ In(query, Lower(Get(concept, "name", <<>>)))
                \/ AliasIs(query, Get(concept, "aliases", <<>>))
             THEN i
             ELSE ProblemScan_AnyCategory(i + 1, query)

\* lines 309-325: the position of the first concept of category problem_class
\* that the query matches by ID, by name or by alias, from the i-th on (0: none)
RECURSIVE ProblemScan(_, _)
ProblemScan(i, query) ==
    IF i > Len(concepts) THEN 0
    ELSE LET concept == concepts[i]
         IN  IF /\ Get(concept, "category", "") = "problem_class"
                /\ \/ In(query, Lower(concept.id))
                   \/ In(query, Lower(Get(concept, "name", <<>>)))
                   \/ AliasIs(query, Get(concept, "aliases", <<>>))
             THEN i
             ELSE ProblemScan(i + 1, query)

\* [a['id'] for a in ...alternative_to]: subscripting a bare string with 'id'
\* raises TypeError
Alternatives(solver) ==
    LET targets == Embedded(solver, "alternative_to")
    IN  IF \E k \in 1..Len(targets) : ~IsDict(targets[k])
        THEN [raise |-> "TypeError"]
        ELSE [list |-> [k \in 1..Len(targets) |-> targets[k].id]]

\* lines 334-346 from the i-th relationship on: the solvers appended, or the
\* exception that ends the loop
RECURSIVE Solvers(_, _, _)
Solvers(i, problem_id, solvers) ==
    IF i > Len(relationships) THEN [list |-> solvers]
    ELSE LET rel == relationships[i]
             solver == ConceptOf(rel.from)
         IN  IF rel.type = "solves" /\ rel.to = problem_id /\ rel.from \in ConceptIds
             THEN IF "raise" \in DOMAIN Alternatives(solver)
                  THEN Alternatives(solver)
                  ELSE Solvers(i + 1, problem_id,
                               Append(solvers,
                                      [id |-> rel.from,
                                       name |-> Get(solver, "name", rel.from),
                                       intuition |-> Get(solver, "intuition", <<>>),
                                       alternatives |-> Alternatives(solver).list]))
             ELSE Solvers(i + 1, problem_id, solvers)

\* the strings solvers_for is called with
ProblemQueries == {LP, <<" ", "l", "p">>, Str("q"), Str("z"), Str("s"), Str("x")}

SolversFor(problem_class) ==
    /\ Ready
    /\ call' = [op |-> "solvers_for", problem_class |-> problem_class]
    /\ LET matched == ProblemScan(1, Strip(Lower(problem_class)))
           problem == concepts[matched]
           solvers == Solvers(1, problem.id, <<>>)
       IN  IF matched = 0
           THEN result' = [op |-> "solvers_for", kind |-> "error",
                           error |-> problem_class]
           ELSE IF "raise" \in DOMAIN solvers
           THEN result' = [op |-> "solvers_for", kind |-> "raise",
                           exception |-> solvers.raise]
           ELSE result' = [op |-> "solvers_for", kind |-> "ok",
                           problem_class |-> problem.id,
                           problem_name |-> Get(problem, "name", problem.id),
                           solvers |-> solvers.list]
    /\ UNCHANGED <<store, server, pc, queue, visited, stack>>

-----------------------------------------------------------------------------
(* search_concepts *)

\* the `for alias in concept.get('aliases', [])` loop from the k-th alias on
RECURSIVE AliasScore(_, _, _)
AliasScore(query_lower, aliases, k) ==
    IF k > Len(aliases) THEN 0
    ELSE (IF In(query_lower, Lower(aliases[k])) THEN 2 ELSE 0)
         + AliasScore(query_lower, aliases, k + 1)

\* Score with a matching alias list counted once, however many aliases match
Score_AliasesOnce(concept, query_lower) ==
    (IF In(query_lower, Lower(concept.id)) THEN 3 ELSE 0)
    + (IF In(query_lower, Lower(Get(concept, "name", <<>>))) THEN 3 ELSE 0)
    + (IF AliasScore(query_lower, Get(concept, "aliases", <<>>), 1) > 0 THEN 2 ELSE 0)
    + (IF In(query_lower, Lower(Get(concept, "definition", <<>>))) THEN 1 ELSE 0)
    + (IF In(query_lower, Lower(Get(concept, "intuition", <<>>))) THEN 1 ELSE 0)

\* score of one concept
Score(concept, query_lower) ==
    (IF In(query_lower, Lower(concept.id)) THEN 3 ELSE 0)
    + (IF In(query_lower, Lower(Get(concept, "name", <<>>))) THEN 3 ELSE 0)
    + AliasScore(query_lower, Get(concept, "aliases", <<>>), 1)
    + (IF In(query_lower, Lower(Get(concept, "definition", <<>>))) THEN 1 ELSE 0)
    + (IF In(query_lower, Lower(Get(concept, "intuition", <<>>))) THEN 1 ELSE 0)

\* s[:n]
Cut(s, n) == IF Len(s) <= n THEN s ELSE SubSeq(s, 1, n)

\* the results list before it is sorted, from the i-th concept on
RECURSIVE Scored(_, _)
Scored(i, query_lower) ==
    IF i > Len(concepts) THEN <<>>
    ELSE LET concept == concepts[i]
             score == Score(concept, query_lower)
         IN  (IF score > 0
              THEN <<[id |-> concept.id, name |-> Get(concept, "name", concept.id),
                      category |-> Get(concept, "category", "unknown"),
                      score |-> score,
                      definition |-> Cut(Get(concept, "definition", <<>>),
                                         DefinitionCut)]>>
              ELSE <<>>) \o Scored(i + 1, query_lower)

\* a sort that puts a new element before the elements of equal score
RECURSIVE Insert_BeforeEqual(_, _)
Insert_BeforeEqual(sorted, x) ==
    IF sorted = <<>> THEN <<x>>
    ELSE IF Head(sorted).score > x.score
         THEN <<Head(sorted)>> \o Insert_BeforeEqual(Tail(sorted), x)
    ELSE <<x>> \o sorted

\* the place a stable sort by -score gives a new last element x: behind every
\* element that does not score less
RECURSIVE Insert(_, _)
Insert(sorted, x) ==
    IF sorted = <<>> THEN <<x>>
    ELSE IF Head(sorted).score >= x.score THEN <<Head(sorted)>> \o Insert(Tail(sorted), x)
    ELSE <<x>> \o sorted

\* sorted(results, key=lambda x: -x['score']) of the first n results
RECURSIVE SortedByScore(_, _)
SortedByScore(results, n) ==
    IF n = 0 THEN <<>>
    ELSE Insert(SortedByScore(results, n - 1), results[n])

SearchConcepts(query) ==
    /\ Ready
    /\ call' = [op |-> "search_concepts", query |-> query]
    /\ LET results == Scored(1, Lower(query))
       IN  result' = [op |-> "search_concepts", kind |-> "ok",
                      results |-> SortedByScore(results, Len(results))]
    /\ UNCHANGED <<store, server, pc, queue, visited, stack>>

-----------------------------------------------------------------------------
(* list_concepts *)

\* category stands for Python's None when it is "None"; `if category and ...`
\* filters on a string that is not empty only
Filters(category) == category \notin {"None", ""}

\* the entries list_concepts appends, from the i-th concept on
RECURSIVE Listed(_, _)
Listed(i, category) ==
    IF i > Len(concepts) THEN <<>>
    ELSE LET concept == concepts[i]
         IN  (IF Filters(category) /\ Get(concept, "category", "None") # category
              THEN <<>>
              ELSE <<[id |-> concept.id,
                      name |-> Get(concept, "name", concept.id),
                      category |-> Get(concept, "category", "unknown"),
                      aliases |-> Get(concept, "aliases", <<>>)]>>)
             \o Listed(i + 1, category)

\* the place a stable sort by name gives a new last element x: behind every
\* element whose name is not greater
RECURSIVE InsertByName(_, _)
InsertByName(sorted, x) ==
    IF sorted = <<>> THEN <<x>>
    ELSE IF ~Before(x.name, Head(sorted).name)
         THEN <<Head(sorted)>> \o InsertByName(Tail(sorted), x)
    ELSE <<x>> \o sorted

\* sorted(results, key=lambda x: x['name']) of the first n results
RECURSIVE SortedByName(_, _)
SortedByName(results, n) ==
    IF n = 0 THEN <<>>
    ELSE InsertByName(SortedByName(results, n - 1), results[n])

\* the categories list_concepts is called with
Categories == {"None", "", "algorithm", "problem_class", "theory"}

ListConcepts(category) ==
    /\ Ready
    /\ call' = [op |-> "list_concepts", category |-> category]
    /\ LET results == Listed(1, category)
       IN  result' = [op |-> "list_concepts", kind |-> "ok",
                      results |-> SortedByName(results, Len(results))]
    /\ UNCHANGED <<store, server, pc, queue, visited, stack>>

-----------------------------------------------------------------------------
(* get_algorithm_guidance and suggest_approach *)

\* self.guidance.get('algorithms', {}), as the list of its items
Algos == Get(guidance, "algorithms", << >>)

\* the fuzzy loop of get_algorithm_guidance from the k-th item on
RECURSIVE GuidanceScan(_, _)
GuidanceScan(k, algorithm_id) ==
    IF k > Len(Algos) THEN [error |-> algorithm_id]
    ELSE IF In(Lower(algorithm_id), Lower(Algos[k].id))
    THEN Algos[k].data @@ [algorithm |-> Algos[k].id]
    ELSE GuidanceScan(k + 1, algorithm_id)

GetAlgorithmGuidance(algorithm_id) ==
    IF \E k \in 1..Len(Algos) : Algos[k].id = algorithm_id
    THEN LET k == CHOOSE k \in 1..Len(Algos) : Algos[k].id = algorithm_id
         IN  Algos[k].data @@ [algorithm |-> algorithm_id]
    ELSE GuidanceScan(1, algorithm_id)

\* the strings get_algorithm_guidance is called with
GuidanceQueries == {SimplexMethod, Simplex, Str("S"), Str("x")}

\* a call of get_algorithm_guidance: a result with the key error or without
GetAlgorithmGuidanceCall(algorithm_id) ==
    /\ Ready
    /\ call' = [op |-> "get_algorithm_guidance", algorithm_id |-> algorithm_id]
    /\ LET value == GetAlgorithmGuidance(algorithm_id)
       IN  result' = [op |-> "get_algorithm_guidance",
                      kind |-> IF "algorithm" \in DOMAIN value THEN "ok" ELSE "error",
                      value |-> value]
    /\ UNCHANGED <<store, server, pc, queue, visited, stack>>

\* the score of an indicator with 1 added for every characteristic that matches
IndicatorScore_PerCharacteristic(indicator, char_lower, problem_lower) ==
    Cardinality({c \in 1..Len(char_lower) :
                    In(char_lower[c], indicator) \/ In(indicator, char_lower[c])})
    + (IF In(problem_lower, indicator) THEN 2 ELSE 0)

\* the score one indicator adds: 1 if some characteristic contains it or is
\* contained in it, and 2 if the problem type is contained in it
IndicatorScore(indicator, char_lower, problem_lower) ==
    (IF \E c \in 1..Len(char_lower) :
            In(char_lower[c], indicator) \/ In(indicator, char_lower[c])
     THEN 1 ELSE 0)
    + (IF In(problem_lower, indicator) THEN 2 ELSE 0)

\* the `for indicator in indicators` loop from the i-th indicator on
RECURSIVE RuleScore(_, _, _, _)
RuleScore(indicators, i, char_lower, problem_lower) ==
    IF i > Len(indicators) THEN 0
    ELSE IndicatorScore(Lower(indicators[i]), char_lower, problem_lower)
         + RuleScore(indicators, i + 1, char_lower, problem_lower)

\* self.guidance.get('problem_characteristics', {}), as the list of its items
Rules == Get(guidance, "problem_characteristics", << >>)

\* the suggestions of the rules from the k-th on, before they are sorted
RECURSIVE Suggestions(_, _, _)
Suggestions(k, char_lower, problem_lower) ==
    IF k > Len(Rules) THEN <<>>
    ELSE LET rule == Rules[k]
             score == RuleScore(Get(rule, "indicators", <<>>), 1, char_lower,
                                problem_lower)
         IN  (IF score > 0
              THEN <<[rule |-> rule.name,
                      algorithm |-> Get(rule, "recommendation", <<>>),
                      rationale |-> Get(rule, "rationale", <<>>),
                      score |-> score]>>
              ELSE <<>>) \o Suggestions(k + 1, char_lower, problem_lower)

\* one entry of detailed
Detail(algo_id, rationale, found) ==
    [algorithm |-> algo_id,
     rationale |-> rationale,
     when_to_use |-> Get(found, "when_to_use", <<>>),
     strengths |-> Cut(Get(found, "strengths", <<>>), MaxStrengths),
     complexity |-> Get(found, "complexity", << >>)]

\* suggestions[:3]
TopSuggestions(suggestions) == Cut(suggestions, TopRules)

\* the `for s in suggestions[:3]` loop from the i-th suggestion on
RECURSIVE Detailed(_, _, _, _)
Detailed(top, i, seen_algos, detailed) ==
    IF i > Len(top) THEN detailed
    ELSE LET algo_id == top[i].algorithm
             found == GetAlgorithmGuidance(algo_id)
         IN  IF algo_id # <<>> /\ algo_id \notin seen_algos
             THEN Detailed(top, i + 1, seen_algos \cup {algo_id},
                           IF "error" \in DOMAIN found THEN detailed
                           ELSE Append(detailed, Detail(algo_id, top[i].rationale, found)))
             ELSE Detailed(top, i + 1, seen_algos, detailed)

\* problem_to_algo.get(problem_lower, [])
ProblemToAlgo(problem_lower) ==
    CASE problem_lower = <<"l", "p">> -> <<SimplexMethod, InteriorPointMethod>>
      [] problem_lower = <<"q", "p">> -> <<ActiveSetMethod, InteriorPointMethod>>
      [] problem_lower = <<"n", "l", "p">> -> <<InteriorPointMethod>>
      [] problem_lower = <<"m", "i", "p">> -> <<BranchAndBound>>
      [] problem_lower = <<"m", "i", "l", "p">> -> <<BranchAndBound>>
      [] problem_lower = <<"m", "i", "n", "l", "p">> ->
            <<OuterApproximation, SpatialBranchAndBound>>
      [] OTHER -> <<>>

\* f'Standard approach for {problem_type}'
StandardApproach(problem_type) == <<"Standard approach for ">> \o problem_type

\* the fallback loop appending an entry whether guidance is found or not
RECURSIVE Fallback_KeepsAll(_, _, _)
Fallback_KeepsAll(algos, i, problem_type) ==
    IF i > Len(algos) THEN <<>>
    ELSE <<Detail(algos[i], StandardApproach(problem_type),
                  GetAlgorithmGuidance(algos[i]))>>
         \o Fallback_KeepsAll(algos, i + 1, problem_type)

\* the fallback loop from the i-th algorithm of the table's list on
RECURSIVE Fallback(_, _, _)
Fallback(algos, i, problem_type) ==
    IF i > Len(algos) THEN <<>>
    ELSE LET found == GetAlgorithmGuidance(algos[i])
         IN  (IF "error" \in DOMAIN found THEN <<>>
              ELSE <<Detail(algos[i], StandardApproach(problem_type), found)>>)
             \o Fallback(algos, i + 1, problem_type)

\* what suggest_approach is called with
ProblemTypes ==
    { <<"l", "p">>, <<"q", "p">>, <<"n", "l", "p">>, <<"M", "I", "P">>,
      <<"m", "i", "l", "p">>, <<"m", "i", "n", "l", "p">>, Str("x") }
Characteristics == { <<>>, << <<"S", "p">> >>, << <<"S", "p">>, Str("s") >> }
\* every problem type without characteristics, two of them with one, one with two
SuggestCalls ==
    (ProblemTypes \X {<<>>})
    \cup ({<<"l", "p">>, <<"M", "I", "P">>} \X {<< <<"S", "p">> >>})
    \cup ({<<"l", "p">>} \X {<< <<"S", "p">>, Str("s") >>})

SuggestApproach(problem_type, characteristics) ==
    /\ Ready
    /\ call' = [op |-> "suggest_approach", problem_type |-> problem_type,
                characteristics |-> characteristics]
    /\ LET char_lower == [c \in 1..Len(characteristics) |-> Lower(characteristics[c])]
           problem_lower == Lower(problem_type)
           unsorted == Suggestions(1, char_lower, problem_lower)
           suggestions == SortedByScore(unsorted, Len(unsorted))
           detailed == Detailed(TopSuggestions(suggestions), 1, {}, <<>>)
       IN  result' = [op |-> "suggest_approach", kind |-> "ok",
                      problem_type |-> problem_type,
                      characteristics |-> characteristics,
                      suggestions |->
                          IF detailed = <<>>
                          THEN Fallback(ProblemToAlgo(problem_lower), 1, problem_type)
                          ELSE detailed,
                      rules_matched |-> Len(suggestions)]
    /\ UNCHANGED <<store, server, pc, queue, visited, stack>>

-----------------------------------------------------------------------------

(* coin_or_kb_server.py: main *)

\* read_request: the next message is taken from stdin. A body that is not JSON
\* makes json.loads raise, which main reports on stderr; {} makes main
\* `continue`; in both cases main goes back to reading.
ReadRequest ==
    /\ request = NoRequest
    /\ stdin # <<>>
    /\ stdin' = Tail(stdin)
    /\ request' = IF "method" \in DOMAIN Head(stdin) THEN Head(stdin) ELSE NoRequest
    /\ UNCHANGED <<store, pc, call, queue, visited, stack, result, stdout>>

\* `if req_id is not None: ... send_response(response)`
Reply(value) ==
    stdout' = IF "id" \in DOMAIN request
              THEN Append(stdout, [id |-> request.id] @@ value)
              ELSE stdout

\* the methods main answers itself
Answered ==
    {"initialize", "tools/list", "resources/list", "resources/read"}

\* main for a request whose method is not tools/call
Handle ==
    /\ request # NoRequest
    /\ request.method # "tools/call"
    /\ IF request.method = "notifications/initialized" THEN UNCHANGED stdout
       ELSE IF request.method \in Answered THEN Reply([result |-> request.method])
       ELSE Reply([error |-> [code |-> MethodNotFound]])
    /\ request' = NoRequest
    /\ UNCHANGED <<store, pc, call, queue, visited, stack, result, stdin>>

\* the tools of handle_tool_call that query the graph
Tools == {"explore_concept", "find_path", "prerequisites_for", "list_concepts"}

\* handle_tool_call: the query the request names is called with its arguments
ToolCall ==
    /\ request # NoRequest
    /\ request.method = "tools/call"
    /\ LET name == request.params.name
           arguments == request.params.arguments
       IN  \/ /\ name = "explore_concept"
              /\ ExploreConcept(arguments.concept_id)
           \/ /\ name = "find_path"
              /\ FindPath(arguments.from_concept, arguments.to_concept,
                          arguments.max_depth)
           \/ /\ name = "prerequisites_for"
              /\ PrerequisitesFor(arguments.concept_id, arguments.depth)
           \/ /\ name = "list_concepts"
              /\ ListConcepts(Get(arguments, "category", "None"))
           \/ /\ name \notin Tools
              /\ Ready
              /\ call' = [op |-> "tools/call", name |-> name]
              /\ result' = [op |-> "tools/call", kind |-> "ok", isError |-> TRUE]
              /\ UNCHANGED <<store, server, pc, queue, visited, stack>>

\* main after handle_tool_call: the value is sent if the request has an id;
\* an exception of the tool is caught by `except Exception`, reported on
\* stderr, and nothing is sent
SendResponse ==
    /\ request # NoRequest
    /\ request.method = "tools/call"
    /\ pc = "idle"
    /\ result.op # "none"
    /\ IF result.kind = "raise" THEN UNCHANGED stdout
       ELSE Reply([result |-> result])
    /\ request' = NoRequest
    /\ result' = [op |-> "none"]
    /\ call' = [op |-> "none"]
    /\ UNCHANGED <<store, pc, queue, visited, stack, stdin>>

-----------------------------------------------------------------------------

\* the caller takes the value the query returned
Return ==
    /\ request = NoRequest
    /\ pc = "idle"
    /\ result.op # "none"
    /\ result' = [op |-> "none"]
    /\ call' = [op |-> "none"]
    /\ UNCHANGED <<store, server, pc, queue, visited, stack>>

NextGraph ==
    \/ \E f \in PathArgs, t \in PathArgs, k \in PathDepths : FindPath(f, t, k)
    \/ BfsStep
    \/ BfsExhausted
    \/ \E c \in PrereqArgs, d \in (-1)..MaxPrereqDepth : PrerequisitesFor(c, d)
    \/ GatherStep
    \/ GatherReturnStep
    \/ Return

SpecGraph == InitGraph /\ [][NextGraph]_vars

NextText ==
    \/ \E q \in Queries \cup ConceptIds : ExploreConcept(q)
    \/ \E q \in Queries \cup ConceptIds : ImplementationsOf(q)
    \/ \E q \in Queries \cup ConceptIds, other \in ConceptIds \cup {NoConcept} :
          CompareAlgorithms(q, other)
    \/ \E q \in Queries : SearchConcepts(q)
    \/ Return

SpecText == InitText /\ [][NextText]_vars

NextSolve ==
    \/ \E p \in ProblemQueries : SolversFor(p)
    \/ \E x \in ConceptIds, y \in ConceptIds : CompareAlgorithms(x, y)
    \/ Return

SpecSolve == InitSolve /\ [][NextSolve]_vars

NextSuggest ==
    \/ \E c \in SuggestCalls : SuggestApproach(c[1], c[2])
    \/ Return

SpecSuggest == InitSuggest /\ [][NextSuggest]_vars

\* the ten queries, from any store, one after the other
NextFrame ==
    \/ \E q \in Queries \cup ConceptIds : ExploreConcept(q)
    \/ \E f \in PathArgs, t \in PathArgs, k \in PathDepths : FindPath(f, t, k)
    \/ BfsStep
    \/ BfsExhausted
    \/ \E c \in PrereqArgs, d \in (-1)..MaxPrereqDepth : PrerequisitesFor(c, d)
    \/ GatherStep
    \/ GatherReturnStep
    \/ \E q \in Queries \cup ConceptIds : ImplementationsOf(q)
    \/ \E category \in Categories : ListConcepts(category)
    \/ \E q \in Queries : SearchConcepts(q)
    \/ \E p \in ProblemQueries : SolversFor(p)
    \/ \E q \in Queries \cup ConceptIds, other \in ConceptIds \cup {NoConcept} :
          CompareAlgorithms(q, other)
    \/ \E a \in GuidanceQueries : GetAlgorithmGuidanceCall(a)
    \/ \E c \in SuggestCalls : SuggestApproach(c[1], c[2])
    \/ Return

SpecFrame == InitFrame /\ [][NextFrame]_vars

\* explore on the graph stores, whose concepts are the targets of several
\* relationships of several types
NextExplore ==
    \/ \E q \in PathArgs : ExploreConcept(q)
    \/ Return

SpecExplore == InitGraph /\ [][NextExplore]_vars

\* the strings explore is called with on the alias stores
AliasQueries == {Str("a"), Str("b"), Str("z")}

NextAlias ==
    \/ \E q \in AliasQueries \cup ConceptIds : ExploreConcept(q)
    \/ Return

SpecAlias == InitAlias /\ [][NextAlias]_vars

\* the loop of main
NextServer ==
    \/ ReadRequest
    \/ Handle
    \/ ToolCall
    \/ BfsStep
    \/ BfsExhausted
    \/ GatherStep
    \/ GatherReturnStep
    \/ SendResponse

SpecServer == InitServer /\ [][NextServer]_vars

\* main is a sequential loop that is never suspended: a step it can take is taken
SpecServerFair == SpecServer /\ WF_vars(NextServer)

Init ==
    InitGraph \/ InitText \/ InitSolve \/ InitSuggest \/ InitFrame \/ InitAlias
        \/ InitServer
Next ==
    NextGraph \/ NextText \/ NextSolve \/ NextSuggest \/ NextFrame \/ NextExplore
        \/ NextAlias \/ NextServer
Spec == Init /\ [][Next]_vars

-----------------------------------------------------------------------------
(* Paths of the relationship list, stated without the search *)

\* some relationship leads from a to b, and b is no file reference
Edge(a, b) ==
    /\ ~HasSlash(b)
    /\ \E k \in 1..Len(relationships) :
          relationships[k].from = a /\ relationships[k].to = b

\* a chain of n >= 1 relationships leads from a to b through concepts only
RECURSIVE PathOfLength(_, _, _)
PathOfLength(a, b, n) ==
    IF n < 1 THEN FALSE
    ELSE IF n = 1 THEN Edge(a, b)
    ELSE \E m \in ConceptIds : Edge(a, m) /\ PathOfLength(m, b, n - 1)

PathReturned == result.op = "find_path" /\ result.kind = "ok"
PathFound == PathReturned /\ result.found

\* the store of the spec's scenario: A -requires-> B, B -requires-> C and nothing else
ScenarioABC ==
    relationships = << [from |-> Str("a"), to |-> Str("b"), type |-> "requires"],
                       [from |-> Str("b"), to |-> Str("c"), type |-> "requires"] >>

ScenarioCall ==
    call = [op |-> "find_path", from_concept |-> Str("a"), to_concept |-> Str("c"),
            max_depth |-> DefaultMaxDepth]

\* C1: a found path has the least number of edges over all chains of one or more
\* relationships from from_id to to_id with no file-reference target and only
\* concepts in between; and on A -requires-> B -requires-> C, find_path(A, C, 5)
\* is found with length 2.
C1_ShortestPath ==
    /\ PathFound =>
         /\ PathOfLength(call.from_concept, call.to_concept, result.length)
         /\ \A m \in 1..(result.length - 1) :
               ~PathOfLength(call.from_concept, call.to_concept, m)
    /\ (PathReturned /\ ScenarioABC /\ ScenarioCall) =>
         (result.found /\ result.length = 2)

C1_Witness ==
    PathFound /\ ScenarioABC /\ ScenarioCall /\ result.length = 2

\* C2: for two existing concepts, find_path answers found: true exactly when a chain
\* of 1..max_depth relationships leads from from_id to to_id, found: false otherwise,
\* and a found path is never longer than max_depth.
C2_FoundIffPathWithinDepth ==
    /\ (result.op = "find_path" /\ call.from_concept \in ConceptIds
            /\ call.to_concept \in ConceptIds) => result.kind # "error"
    /\ PathReturned =>
         /\ result.found <=>
               \E n \in 1..call.max_depth :
                   PathOfLength(call.from_concept, call.to_concept, n)
         /\ result.found => result.length <= call.max_depth

\* not found although a chain exists: it is longer than max_depth
C2_Witness ==
    /\ PathReturned /\ ~result.found
    /\ call.max_depth >= 1
    /\ PathOfLength(call.from_concept, call.to_concept, call.max_depth + 1)

SelfQuery == PathReturned /\ call.from_concept = call.to_concept

\* C3 as claimed: find_path(A, A, k) is found only through a direct self-edge, with
\* length exactly 1.
C3_SelfPathOnlyBySelfEdge ==
    (SelfQuery /\ result.found) =>
        (result.length = 1 /\ Edge(call.from_concept, call.from_concept))

\* C3 as amended: find_path(A, A, k) never returns a path of length 0; it is found
\* exactly when a cycle of 1..k relationships leads from A back to A, with the
\* length of the shortest such cycle, which is 1 exactly when A has a self-edge.
C3_SelfPathIsShortestCycle ==
    SelfQuery =>
        /\ result.found <=>
              \E n \in 1..call.max_depth :
                  PathOfLength(call.from_concept, call.from_concept, n)
        /\ result.found =>
              /\ result.length >= 1
              /\ result.length = Len(result.path)
              /\ PathOfLength(call.from_concept, call.from_concept, result.length)
              /\ \A m \in 1..(result.length - 1) :
                    ~PathOfLength(call.from_concept, call.from_concept, m)
              /\ result.length = 1 <=> Edge(call.from_concept, call.from_concept)

\* a concept found from itself around a cycle of two relationships
C3_Witness ==
    /\ SelfQuery /\ result.found /\ result.length = 2
    /\ ~Edge(call.from_concept, call.from_concept)

\* C4: no edge of a returned path starts or ends at a file reference.
C4_NoFileReferenceInPath ==
    PathFound =>
        \A i \in 1..Len(result.path) :
            ~HasSlash(result.path[i].from) /\ ~HasSlash(result.path[i].to)

\* a path found from a concept that also has a relationship to a file reference,
\* which has relationships of its own
C4_Witness ==
    /\ PathFound
    /\ \E j, k \in 1..Len(relationships) :
          /\ relationships[j].from = call.from_concept
          /\ HasSlash(relationships[j].to)
          /\ relationships[k].from = relationships[j].to

-----------------------------------------------------------------------------
(* The tree prerequisites_for returns *)

PrereqReturned == result.op = "prerequisites_for" /\ result.kind = "ok"

\* no entry of the list, nor of the lists nested in it, has an ID met above it
RECURSIVE NoRepeat(_, _)
NoRepeat(entries, above) ==
    \A i \in 1..Len(entries) :
        /\ entries[i].id \notin above
        /\ NoRepeat(Get(entries[i], "requires", <<>>), above \cup {entries[i].id})

\* C5: no concept ID occurs twice along a branch of the returned tree, the root
\* being the first node of every branch.
C5_NoRepeatOnBranch ==
    PrereqReturned =>
        NoRepeat(Get(result, "requires", <<>>), {result.concept})

-----------------------------------------------------------------------------
(* Termination of gather_prereqs *)

\* everything a call of gather_prereqs can be about
Nodes == ConceptIds \cup {relationships[k].to : k \in 1..Len(relationships)}

\* the calls of gather_prereqs nest at most this deep
RankDepth == Cardinality(Nodes)

\* more than any position in a requires list
RankBase ==
    2 + Cardinality({k \in 1..Len(relationships) : relationships[k].type = "requires"})

\* the place of the innermost loop in the traversal of the whole tree
RECURSIVE Rank(_, _)
Rank(frames, k) ==
    IF k > Len(frames) THEN 0
    ELSE frames[k].i * RankBase ^ (RankDepth - k) + Rank(frames, k + 1)

\* C6: prerequisites_for terminates: every call of gather_prereqs that goes on
\* strictly enlarges the visited set of its branch within the depth bound, so the
\* calls nest no deeper than there are nodes, and every step moves the traversal
\* strictly forward in a bounded order.
C6_GatherTerminates ==
    [][(pc = "gather" /\ pc' = "gather") =>
          /\ Len(stack') <= RankDepth
          /\ \A k \in 1..Len(stack') : stack'[k].i < RankBase
          /\ Rank(stack', 1) > Rank(stack, 1)
          /\ Len(stack') > Len(stack) =>
                /\ stack'[Len(stack')].depth <= call.depth
                /\ stack[Len(stack)].visited \subseteq stack'[Len(stack')].visited
                /\ stack[Len(stack)].visited # stack'[Len(stack')].visited
                /\ stack'[Len(stack')].visited \subseteq Nodes]_vars

\* the cycle guard alone stops a call: the target is on the branch already and the
\* depth bound would let the call go on
C6_Witness ==
    /\ pc = "gather"
    /\ Len(stack) >= 2
    /\ Top.i <= Len(TopRequires)
    /\ TopRequires[Top.i].id \in Top.visited
    /\ Top.depth + 1 <= call.depth

-----------------------------------------------------------------------------
(* Resolution of a query string *)

ExploreReturned == result.op = "explore"

\* C7: explore_concept called with the ID of a concept of the store returns
\* that concept's own record, even when the ID is contained in the ID of a
\* concept loaded earlier or equals an alias of another concept.
C7_ExactIdWins ==
    (ExploreReturned /\ call.concept_id \in ConceptIds) =>
        /\ result.kind = "ok"
        /\ result.id = call.concept_id
        /\ result.concept = ConceptOf(call.concept_id)

\* explore_concept has answered for an ID that an earlier concept's ID contains
\* and that is an alias of another concept
C7_Witness ==
    /\ ExploreReturned
    /\ call.concept_id \in ConceptIds
    /\ \E i \in 1..Len(concepts) :
          /\ i < IndexOf(call.concept_id)
          /\ In(Lower(call.concept_id), Lower(concepts[i].id))
    /\ \E j \in 1..Len(concepts) :
          /\ j # IndexOf(call.concept_id)
          /\ AliasEquals(call.concept_id, Get(concepts[j], "aliases", <<>>))

\* the concept a returned explore_concept or implementations_of resolved its
\* query to, as a position in the store (0: not found)
ResolutionReturned ==
    IF result.kind = "error" THEN 0
    ELSE IF ExploreReturned THEN IndexOf(result.id)
    ELSE IndexOf(result.concept)

\* C8: a query string resolves to the same concept, or to none, whether it is
\* given to explore_concept, to implementations_of or to compare_algorithms.
C8_SameResolution ==
    (result.op \in {"explore", "implementations_of"}) =>
        /\ ResolutionReturned = ExploreResolve(call.concept_id).matched
        /\ ResolutionReturned = SubstringResolve(call.concept_id)

-----------------------------------------------------------------------------
(* search_concepts *)

SearchReturned == result.op = "search_concepts"

\* C9: the entries search_concepts returns are in order of non-increasing
\* score, and entries of equal score are in the order their concepts were
\* loaded.
C9_SortedStable ==
    SearchReturned =>
        \A i, j \in 1..Len(result.results) :
            i < j =>
                /\ result.results[i].score >= result.results[j].score
                /\ (result.results[i].score = result.results[j].score
                      => IndexOf(result.results[i].id) < IndexOf(result.results[j].id))

\* search_concepts has returned two entries of equal score
C9_Witness ==
    /\ SearchReturned
    /\ \E i, j \in 1..Len(result.results) :
          i < j /\ result.results[i].score = result.results[j].score

\* [q in s], the tests being case-insensitive
Contains(q, s) == IF In(Lower(q), Lower(s)) THEN 1 ELSE 0

\* the score a concept should have for a query
WeightedScore(concept, q) ==
    LET aliases == Get(concept, "aliases", <<>>)
    IN  3 * Contains(q, concept.id)
        + 3 * Contains(q, concept.name)
        + 2 * Cardinality({k \in 1..Len(aliases) : Contains(q, aliases[k]) = 1})
        + Contains(q, concept.definition)
        + Contains(q, concept.intuition)

\* the entries of a returned search for one concept
EntriesOf(cid) == {i \in 1..Len(result.results) : result.results[i].id = cid}

\* C10: the score of a concept is 3 for the ID, 3 for the name, 2 for every
\* alias, 1 for the definition and 1 for the intuition that contains the
\* query, case ignored; a concept of positive score is in the result of
\* search_concepts exactly once, with that score, and a concept of score 0 is
\* not in it.
C10_ScoreAndMembership ==
    SearchReturned =>
        \A k \in 1..Len(concepts) :
            LET score == WeightedScore(concepts[k], call.query)
            IN  IF score > 0
                THEN /\ Cardinality(EntriesOf(concepts[k].id)) = 1
                     /\ \A i \in EntriesOf(concepts[k].id) :
                            result.results[i].score = score
                ELSE EntriesOf(concepts[k].id) = {}

\* search_concepts has returned for a query that two aliases of one concept
\* contain and that nothing of another concept contains
C10_Witness ==
    /\ SearchReturned
    /\ call.query # <<>>
    /\ \E k \in 1..Len(concepts) :
          LET aliases == Get(concepts[k], "aliases", <<>>)
          IN  Cardinality({a \in 1..Len(aliases) :
                              Contains(call.query, aliases[a]) = 1}) > 1
    /\ \E k \in 1..Len(concepts) : WeightedScore(concepts[k], call.query) = 0

-----------------------------------------------------------------------------
(* solvers_for and compare_algorithms *)

SolversReturned == result.op = "solvers_for" /\ result.kind = "ok"

\* the concept matches what solvers_for was called with, by ID
MatchesById(concept) ==
    In(Strip(Lower(call.problem_class)), Lower(concept.id))

\* the relationship says that a concept solves the resolved problem
SolvesProblem(rel) ==
    rel.type = "solves" /\ rel.to = result.problem_class /\ rel.from \in ConceptIds

\* the spec's scenario: simplex_method and LP, and the one edge between them
ScenarioSimplex ==
    /\ ConceptIds = {SimplexMethod, LP}
    /\ relationships = <<[from |-> SimplexMethod, to |-> LP, type |-> "solves"]>>
    /\ call.problem_class = LP

\* C11: solvers_for resolves to a concept of category problem_class only, and
\* its solvers are the sources, being concepts, of the relationships of type
\* solves to the resolved problem, one each and in the order of the
\* relationship list; in the scenario of simplex_method and LP, solvers_for("LP")
\* returns the one solver simplex_method.
C11_SolversOfProblemClass ==
    /\ SolversReturned =>
         /\ result.problem_class \in ConceptIds
         /\ ConceptOf(result.problem_class).category = "problem_class"
         /\ LET solving == SelectSeq(relationships, SolvesProblem)
            IN  /\ Len(result.solvers) = Len(solving)
                /\ \A k \in 1..Len(solving) : result.solvers[k].id = solving[k].from
    /\ (result.op = "solvers_for" /\ ScenarioSimplex) =>
         /\ result.kind = "ok"
         /\ Len(result.solvers) = 1
         /\ result.solvers[1].id = SimplexMethod

\* solvers_for has passed over an algorithm whose ID contains the query and
\* has returned two solvers, other relationships being in the list
C11_Witness ==
    /\ SolversReturned
    /\ Len(result.solvers) = 2
    /\ \E i \in 1..Len(concepts) :
          /\ i < IndexOf(result.problem_class)
          /\ concepts[i].category # "problem_class"
          /\ MatchesById(concepts[i])
    /\ \E k \in 1..Len(relationships) : ~SolvesProblem(relationships[k])

\* solvers_for has answered in the scenario of simplex_method and LP
C11_ScenarioReached == SolversReturned /\ ScenarioSimplex

\* compare_algorithms has compared a concept of the store with itself
SelfComparison ==
    /\ result.op = "compare_algorithms"
    /\ call.algo1 = call.algo2
    /\ call.algo1 \in ConceptIds

\* the targets the relationship list gives a concept for one relationship type
DeclaredTargets(cid, rel_type) ==
    {relationships[k].to : k \in {j \in 1..Len(relationships) :
        relationships[j].from = cid /\ relationships[j].type = rel_type}}

\* what C12 says of every comparison of a concept with itself but for
\* are_alternatives
SelfComparisonSets ==
    /\ result.kind = "ok"
    /\ result.only_1_solves = {} /\ result.only_2_solves = {}
    /\ result.unique_to_1 = {} /\ result.unique_to_2 = {}
    /\ result.both_solve = DeclaredTargets(call.algo1, "solves")

\* C12 as claimed: compare_algorithms(X, X) returns are_alternatives false, empty
\* difference sets and both_solve equal to the solves targets of X.
C12_SelfComparison ==
    SelfComparison => (SelfComparisonSets /\ ~result.are_alternatives)

\* C12: compare_algorithms(X, X) returns empty difference sets and both_solve
\* equal to the solves targets of X, and are_alternatives is true exactly
\* when X is among its own alternative_to targets.
C12_SelfComparisonAlternatives ==
    SelfComparison =>
        /\ SelfComparisonSets
        /\ result.are_alternatives
             <=> call.algo1 \in DeclaredTargets(call.algo1, "alternative_to")

\* a concept that solves something and is declared an alternative to itself
\* has been compared with itself
C12_Witness ==
    /\ SelfComparison
    /\ result.kind = "ok"
    /\ result.both_solve # {}
    /\ result.are_alternatives

-----------------------------------------------------------------------------
(* suggest_approach *)

SuggestReturned == result.op = "suggest_approach"

\* the algorithm IDs of the returned suggestions
SuggestedIds == [k \in 1..Len(result.suggestions) |-> result.suggestions[k].algorithm]

\* the guidance table has an entry that get_algorithm_guidance finds for the ID
HasGuidance(algorithm_id) ==
    \E k \in 1..Len(Algos) : In(Lower(algorithm_id), Lower(Algos[k].id))

\* the rules that match the call: some indicator contains the problem type, or
\* contains or is contained in a characteristic
MatchedRules ==
    {k \in 1..Len(Rules) :
        \E i \in 1..Len(Rules[k].indicators) :
            \/ In(Lower(call.problem_type), Lower(Rules[k].indicators[i]))
            \/ \E c \in 1..Len(call.characteristics) :
                  \/ In(Lower(call.characteristics[c]), Lower(Rules[k].indicators[i]))
                  \/ In(Lower(Rules[k].indicators[i]), Lower(call.characteristics[c]))}

\* the algorithms with guidance that the matched rules recommend
RecommendedWithGuidance ==
    {Rules[k].recommendation :
        k \in {m \in MatchedRules : /\ "recommendation" \in DOMAIN Rules[m]
                                   /\ HasGuidance(Rules[m].recommendation)}}

\* C13: an algorithm that several matched rules recommend takes one of the
\* three places only, so when the matched rules recommend three or more distinct
\* algorithms that have guidance, suggest_approach returns three suggestions.
C13_ThreeDistinctSuggestions ==
    (SuggestReturned /\ Cardinality(RecommendedWithGuidance) >= TopRules) =>
        Len(result.suggestions) = TopRules

\* C14: when suggest_approach reports rules_matched > 0, no suggestion has the
\* rationale of the fallback table, 'Standard approach for <problem_type>'.
C14_FallbackOnlyWithoutRules ==
    (SuggestReturned /\ result.rules_matched > 0) =>
        \A k \in 1..Len(result.suggestions) :
            result.suggestions[k].rationale # StandardApproach(call.problem_type)

\* the list of the fallback table for the problem type of the call
FallbackList == ProblemToAlgo(Lower(call.problem_type))

\* C15 as claimed: when no rule matches, the suggested algorithms are the list
\* of the fallback table for the problem type, case ignored, in table order.
C15_FallbackList ==
    (SuggestReturned /\ result.rules_matched = 0) => SuggestedIds = FallbackList

\* C15: when no rule matches, rules_matched is 0 and the suggested algorithms
\* are those of the fallback list for the problem type, case ignored, that
\* have guidance, in table order, each with the fallback rationale; for mip
\* that is branch_and_bound when the guidance table has an entry for it.
C15_FallbackListWithGuidance ==
    (SuggestReturned /\ MatchedRules = {}) =>
        /\ result.rules_matched = 0
        /\ SuggestedIds = SelectSeq(FallbackList, HasGuidance)
        /\ \A k \in 1..Len(result.suggestions) :
              result.suggestions[k].rationale = StandardApproach(call.problem_type)
        /\ (Lower(call.problem_type) = <<"m", "i", "p">> /\ HasGuidance(BranchAndBound))
              => SuggestedIds = <<BranchAndBound>>

\* rules are there but none matches, and the guidance table has one of the
\* two algorithms of the fallback list
C15_Witness ==
    /\ SuggestReturned
    /\ Rules # <<>> /\ MatchedRules = {}
    /\ Len(FallbackList) = 2
    /\ Len(result.suggestions) = 1

-----------------------------------------------------------------------------
(* Errors as values *)

\* C16: prerequisites_for returns a result or an error value and never
\* raises, whatever the concept ID and the depth, negative depths included.
C16_PrerequisitesNeverRaises ==
    (result.op = "prerequisites_for") => result.kind # "raise"

\* C17: solvers_for returns a value and never raises, whether the targets of
\* the embedded lists are records or bare strings, and the alternatives of a
\* solver are the IDs of its own alternative_to targets.
C17_SolversNeverRaises ==
    (result.op = "solvers_for") =>
        /\ result.kind # "raise"
        /\ result.kind = "ok" =>
              \A k \in 1..Len(result.solvers) :
                  LET targets == Embedded(ConceptOf(result.solvers[k].id),
                                          "alternative_to")
                  IN  result.solvers[k].alternatives =
                          [t \in 1..Len(targets) |-> TargetId(targets[t])]

\* the fields of the value find_path returned
PathResultFields == DOMAIN result \ {"op", "kind"}

\* C18: find_path takes its endpoints as exact IDs: a from_id that is no key of
\* the store gives an error naming the source, otherwise a to_id that is no
\* key gives an error naming the target, neither with a found field; for two
\* keys the value has a found field and no error field.
C18_ExactEndpoints ==
    (result.op = "find_path" /\ result.kind # "running") =>
        IF call.from_concept \notin ConceptIds
        THEN result.kind = "error" /\ result.error = "source"
             /\ "found" \notin PathResultFields
        ELSE IF call.to_concept \notin ConceptIds
        THEN result.kind = "error" /\ result.error = "target"
             /\ "found" \notin PathResultFields
        ELSE "found" \in PathResultFields /\ "error" \notin PathResultFields

\* find_path has refused a to_id that differs from a concept ID in case only
C18_Witness ==
    /\ result.op = "find_path" /\ result.kind = "error"
    /\ call.from_concept \in ConceptIds
    /\ call.to_concept \notin ConceptIds
    /\ \E c \in ConceptIds : Lower(call.to_concept) = Lower(c)
    /\ result.error = "target"

-----------------------------------------------------------------------------
(* The relationship list and its indices *)

\* C19: with every relationship of type alternative_to, the relationship list
\* build_graph produces holds the reverse relationship of the same type.
C19_AlternativesBothWays ==
    \A i \in 1..Len(relationships) :
        relationships[i].type = "alternative_to" =>
            \E j \in 1..Len(relationships) :
                relationships[j] = [from |-> relationships[i].to,
                                    to |-> relationships[i].from,
                                    type |-> "alternative_to"]

\* a seed declared one concept an alternative to another, and not the converse
C19_Witness ==
    /\ Len(relationships) = 2
    /\ relationships[1].type = "alternative_to"
    /\ relationships[1].from # relationships[1].to
    /\ relationships[1].from \in ConceptIds /\ relationships[1].to \in ConceptIds

\* the keys of both indices and their buckets are those of the relationship list
IndicesInLockstep ==
    /\ DOMAIN outgoing = {relationships[i].from : i \in 1..Len(relationships)}
    /\ DOMAIN incoming = {relationships[i].to : i \in 1..Len(relationships)}
    /\ \A key \in DOMAIN outgoing :
          outgoing[key] = SelectSeq(relationships, LAMBDA rel : rel.from = key)
    /\ \A key \in DOMAIN incoming :
          incoming[key] = SelectSeq(relationships, LAMBDA rel : rel.to = key)

\* C20: the outgoing bucket of a key holds the relationships from it, the
\* incoming bucket of a key those to it, each once and in the order of the
\* relationship list, and nothing else; and no step of a query changes an index.
C20_IndicesInLockstep ==
    /\ []IndicesInLockstep
    /\ [][outgoing' = outgoing /\ incoming' = incoming]_vars

\* a query has answered on a store with two relationships from one key and
\* two to one key
C20_Witness ==
    /\ result.op # "none" /\ result.kind = "ok"
    /\ \E key \in DOMAIN outgoing : Len(outgoing[key]) > 1
    /\ \E key \in DOMAIN incoming : Len(incoming[key]) > 1

-----------------------------------------------------------------------------
(* The queries only read the store *)

-----------------------------------------------------------------------------
(* used_by *)

\* the relationships of the list that require the concept explore resolved to
RequiresOf(cid) ==
    SelectSeq(relationships, LAMBDA r : r.type = "requires" /\ r.to = cid)

\* C22: when explore resolves to a concept, used_by has one entry {id, name}
\* for each relationship of type requires whose target is that concept, in the
\* order of the relationship list, the id being the relationship's source;
\* incoming relationships of the other types add no entry.
C22_UsedByIsIncomingRequires ==
    (ExploreReturned /\ result.kind = "ok") =>
        LET requiring == RequiresOf(result.id)
        IN  /\ Len(result.used_by) = Len(requiring)
            /\ \A k \in 1..Len(requiring) :
                  /\ DOMAIN result.used_by[k] = {"id", "name"}
                  /\ result.used_by[k].id = requiring[k].from
                  /\ result.used_by[k].name = NameOf(requiring[k].from)

\* explore resolved "A" to the concept a, which a relationship requires and
\* which is also the target of a relationship of another type
C22_Witness ==
    /\ ExploreReturned
    /\ result.kind = "ok"
    /\ call.concept_id # result.id
    /\ Len(result.used_by) = 1
    /\ \E k \in 1..Len(relationships) :
          relationships[k].to = result.id /\ relationships[k].type # "requires"

\* explore returned two used_by entries
C22_TwoEntries == ExploreReturned /\ result.kind = "ok" /\ Len(result.used_by) = 2

-----------------------------------------------------------------------------
(* The depth of the prerequisite tree *)

\* the entries of a list at nesting level `level` and below keep to depth d:
\* no level beyond d + 1, and no nested list at level d + 1
RECURSIVE WithinDepth(_, _, _)
WithinDepth(entries, level, d) ==
    \A k \in 1..Len(entries) :
        /\ level <= d + 1
        /\ level = d + 1 => "requires" \notin DOMAIN entries[k]
        /\ "requires" \in DOMAIN entries[k] =>
               WithinDepth(entries[k].requires, level + 1, d)

\* C23: in prerequisites_for(C, depth = d) the requires list of a concept is
\* read at recursion depth <= d only (the root being at depth 0), so the
\* entries of the returned tree are at nesting level d + 1 at most and an
\* entry at level d + 1 has no nested requires list.
C23_TreeWithinDepth ==
    /\ pc = "gather" =>
          \A k \in 1..Len(stack) : stack[k].depth = k - 1 /\ stack[k].depth <= call.depth
    /\ PrereqReturned => WithinDepth(Get(result, "requires", <<>>), 1, call.depth)

\* depth 0 returned a direct prerequisite that has an unvisited prerequisite of
\* its own, which the tree does not show
C23_Witness ==
    /\ PrereqReturned
    /\ call.depth = 0
    /\ \E k \in 1..Len(Get(result, "requires", <<>>)) :
          \E j \in 1..Len(Embedded(ConceptOf(result.requires[k].id), "requires")) :
             LET target_id ==
                   TargetId(Embedded(ConceptOf(result.requires[k].id), "requires")[j])
             IN  /\ target_id \in ConceptIds
                 /\ target_id \notin {call.concept_id, result.requires[k].id}

-----------------------------------------------------------------------------
(* The queue and the visited set of find_path *)

\* the queue holds visited concepts, each once, with paths that do not get shorter
QueueVisited ==
    pc = "bfs" =>
        /\ call.from_concept \in visited
        /\ \A k \in 1..Len(queue) :
              /\ queue[k].node \in visited
              /\ queue[k].node \in ConceptIds
        /\ \A j, k \in 1..Len(queue) :
              /\ queue[j].node = queue[k].node => j = k
              /\ j <= k => Len(queue[j].path) <= Len(queue[k].path)

\* a turn of the loop takes the head of the queue and appends, behind what
\* was queued, concepts that were not visited, each once, and marks them visited
Enqueued ==
    (pc = "bfs" /\ pc' = "bfs") =>
        /\ Len(queue') >= Len(queue) - 1
        /\ SubSeq(queue', 1, Len(queue) - 1) = Tail(queue)
        /\ LET new == SubSeq(queue', Len(queue), Len(queue'))
           IN  /\ \A k \in 1..Len(new) :
                     /\ new[k].node \notin visited
                     /\ new[k].node \in ConceptIds
                     /\ Len(new[k].path) = Len(Head(queue).path) + 1
               /\ \A j, k \in 1..Len(new) : new[j].node = new[k].node => j = k
               /\ visited' = visited \cup {new[k].node : k \in 1..Len(new)}
        /\ queue' # <<>> => Len(Head(queue').path) >= Len(Head(queue).path)

\* C24: during a call of find_path the visited set holds from_id and every
\* concept that was ever put on the queue; a concept is appended only if it was
\* not visited and is a key of the concept store, so it is enqueued, and
\* expanded, once at most; the queue is taken from the front, and the paths of
\* the entries taken never get shorter.
C24_EnqueuedOnce ==
    /\ []QueueVisited
    /\ [][Enqueued]_vars

\* the loop is about to expand a concept with a relationship to a visited
\* concept that is not the target, while another concept waits behind it
C24_Witness ==
    /\ pc = "bfs"
    /\ Len(queue) >= 1
    /\ ~DepthReached(Head(queue).path, call.max_depth)
    /\ Head(queue).path # <<>>
    /\ \E k \in 1..Len(Get(outgoing, Head(queue).node, <<>>)) :
          LET target == outgoing[Head(queue).node][k].to
          IN  target \in visited /\ target # call.to_concept

-----------------------------------------------------------------------------
(* The shape of a returned path *)

\* C28: a path returned with found: true is a walk v0 -> v1 -> ... -> vk of
\* k = length >= 1 edges: v0 is from_id, vk is to_id, each edge ends where
\* the next begins, every edge (from, relationship, to) is in the relationship
\* list, v0..v(k-1) are concepts that differ from one another, and vk is none
\* of v1..v(k-1) (it is v0 only when from_id = to_id).
C28_SimpleWalk ==
    PathFound =>
        LET path == result.path
            k == Len(path)
        IN  /\ k = result.length
            /\ k >= 1
            /\ path[1].from = call.from_concept
            /\ path[k].to = call.to_concept
            /\ \A i \in 1..(k - 1) : path[i].to = path[i + 1].from
            /\ \A i \in 1..k :
                  /\ path[i].from \in ConceptIds
                  /\ \E n \in 1..Len(relationships) :
                        /\ relationships[n].from = path[i].from
                        /\ relationships[n].type = path[i].relationship
                        /\ relationships[n].to = path[i].to
            /\ \A i, j \in 1..k : path[i].from = path[j].from => i = j
            /\ \A i \in 2..k : path[k].to # path[i].from
            /\ path[k].to = path[1].from => call.from_concept = call.to_concept

\* a path of two edges was returned
C28_Witness == PathFound /\ result.length = 2 /\ Len(result.path) = 2

-----------------------------------------------------------------------------
(* The embedded relationships and the relationship list *)

\* the targets of the relationships of the list from cid with type rel_type
GlobalTargets(cid, rel_type) ==
    LET mine == SelectSeq(relationships,
                          LAMBDA rel : rel.from = cid /\ rel.type = rel_type)
    IN  [k \in 1..Len(mine) |-> mine[k].to]

\* the target IDs of a concept's embedded list of rel_type (none: no such key)
EmbeddedTargets(concept, rel_type) ==
    LET mine == Embedded(concept, rel_type)
    IN  [k \in 1..Len(mine) |-> TargetId(mine[k])]

\* C29: in a graph built by build_graph, for every concept and each of the
\* six relationship types the target IDs of the concept's embedded list are the
\* 'to' values of the relationships of the list from that concept with that
\* type, in list order, and the concept has the key exactly when there is such
\* a relationship; the queries that read the embedded lists and those that
\* read the list or the indices see the same edges.
C29_EmbeddedAgreesWithList ==
    \A n \in 1..Len(concepts) : \A t \in RelTypes :
        /\ EmbeddedTargets(concepts[n], t) = GlobalTargets(concepts[n].id, t)
        /\ t \in DOMAIN concepts[n].relationships
              <=> GlobalTargets(concepts[n].id, t) # <<>>
        /\ GlobalTargets(concepts[n].id, t)
              = LET mine == SelectSeq(Get(outgoing, concepts[n].id, <<>>),
                                      LAMBDA rel : rel.type = t)
                IN  [k \in 1..Len(mine) |-> mine[k].to]

\* a built graph where a concept has an embedded list of two targets, one of
\* them from the reverse of another concept's alternative_to, and a query
\* has been answered on it
C29_Witness ==
    /\ result.op # "none"
    /\ \E n \in 1..Len(concepts) :
          /\ Len(Embedded(concepts[n], "alternative_to")) = 2
          /\ "requires" \notin DOMAIN concepts[n].relationships
    /\ \E k \in 1..Len(relationships) : relationships[k].type = "requires"

-----------------------------------------------------------------------------
(* Substring and alias matches of explore *)

\* the positions of the concepts whose ID contains the query, case ignored
Containing(query) ==
    {i \in 1..Len(concepts) : In(Lower(query), Lower(concepts[i].id))}

\* the positions of the concepts with an alias equal to the query, case ignored
Aliased(query) ==
    {i \in 1..Len(concepts) :
        \E k \in 1..Len(Get(concepts[i], "aliases", <<>>)) :
            Lower(concepts[i].aliases[k]) = Lower(query)}

\* the first position of a set of positions
First(positions) == CHOOSE i \in positions : \A j \in positions : i <= j

\* C25: a query that is no concept ID but is contained, case ignored, in the ID
\* of some concept is resolved by explore to the first concept in load order
\* whose ID contains it, whichever concepts, loaded before or after, have an
\* alias equal to the query.
C25_SubstringBeforeAlias ==
    (/\ ExploreReturned
     /\ call.concept_id \notin ConceptIds
     /\ Containing(call.concept_id) # {})
        => /\ result.kind = "ok"
           /\ result.id = concepts[First(Containing(call.concept_id))].id

\* C26: a query that is no concept ID and is contained in no ID, and that
\* several concepts have as an alias, case ignored, is resolved by explore to
\* the first of these concepts in load order.
C26_FirstAliasWins ==
    (/\ ExploreReturned
     /\ call.concept_id \notin ConceptIds
     /\ Containing(call.concept_id) = {}
     /\ Cardinality(Aliased(call.concept_id)) > 1)
        => /\ result.kind = "ok"
           /\ result.id = concepts[First(Aliased(call.concept_id))].id

-----------------------------------------------------------------------------
(* The score of a rule *)

\* the characteristics of the call, as given and lowercased
Given == call.characteristics
Lowered == [c \in 1..Len(call.characteristics) |-> Lower(call.characteristics[c])]

\* the score of the k-th rule of the table: 1 for every indicator that some
\* characteristic of chars contains or is contained in, 2 for every indicator
\* that contains the lowercased problem type
ScoreOf(k, chars) ==
    LET indicators == Get(Rules[k], "indicators", <<>>)
    IN  Cardinality({i \in 1..Len(indicators) :
                        \E c \in 1..Len(chars) :
                            \/ In(chars[c], Lower(indicators[i]))
                            \/ In(Lower(indicators[i]), chars[c])})
        + 2 * Cardinality({i \in 1..Len(indicators) :
                              In(Lower(call.problem_type), Lower(indicators[i]))})

\* the suggestions of the call after line 467 has sorted them
SortedSuggestions ==
    LET unsorted == Suggestions(1, Lowered, Lower(call.problem_type))
    IN  SortedByScore(unsorted, Len(unsorted))

\* the position in the rule table of the rule a suggestion was made from
RuleIndex(suggestion) == CHOOSE k \in 1..Len(Rules) : Rules[k].name = suggestion.rule

\* the sorted suggestions are those of the rules that score above 0 with the
\* characteristics chars, with these scores, highest first and rules of equal
\* score in table order, and rules_matched counts them
ScoredBy(chars) ==
    LET sorted == SortedSuggestions
    IN  /\ {sorted[n].rule : n \in 1..Len(sorted)}
              = {Rules[k].name : k \in {j \in 1..Len(Rules) : ScoreOf(j, chars) > 0}}
        /\ \A n \in 1..Len(sorted) : sorted[n].score = ScoreOf(RuleIndex(sorted[n]), chars)
        /\ \A m, n \in 1..Len(sorted) :
              m < n => \/ sorted[m].score > sorted[n].score
                       \/ /\ sorted[m].score = sorted[n].score
                          /\ RuleIndex(sorted[m]) < RuleIndex(sorted[n])
        /\ result.rules_matched
              = Cardinality({k \in 1..Len(Rules) : ScoreOf(k, chars) > 0})

\* C27 as stated: the score of a rule is, summed over its indicators, 1 if
\* some characteristic as supplied contains or is contained in the lowercased
\* indicator (once per indicator) plus 2 if the lowercased problem type is
\* contained in the indicator; rules_matched is the number of rules that score
\* above 0, and rules of equal score stay in table order when sorted.
C27_RuleScore == SuggestReturned => ScoredBy(Given)

\* C27 amended: the same with every characteristic lowercased before it is
\* compared with the lowercased indicator.
C27_RuleScoreLowercased == SuggestReturned => ScoredBy(Lowered)

\* a call with two characteristics that both match one indicator of a rule,
\* answered from a table where two rules score the same and a later rule
\* scores more than an earlier one
C27_Witness ==
    /\ SuggestReturned
    /\ Len(call.characteristics) = 2
    /\ \E k \in 1..Len(Rules) :
       \E i \in 1..Len(Rules[k].indicators) :
          \A c \in 1..2 : In(Lower(Rules[k].indicators[i]), Lowered[c])
    /\ \E j, k \in 1..Len(Rules) :
          j < k /\ ScoreOf(j, Lowered) = ScoreOf(k, Lowered) /\ ScoreOf(j, Lowered) > 0
    /\ \E j, k \in 1..Len(Rules) :
          j < k /\ ScoreOf(j, Lowered) < ScoreOf(k, Lowered) /\ ScoreOf(j, Lowered) > 0

-----------------------------------------------------------------------------
(* The server loop *)

\* a request the server owes a response: it has an id and is no notification
Answerable(r) ==
    /\ "method" \in DOMAIN r
    /\ "id" \in DOMAIN r
    /\ r.method # "notifications/initialized"

\* the request with id i waits on stdin or is being handled
Pending(i) ==
    \/ \E k \in 1..Len(stdin) : Answerable(stdin[k]) /\ stdin[k].id = i
    \/ Answerable(request) /\ request.id = i

\* the responses written with id i
Responses(i) == {k \in 1..Len(stdout) : stdout[k].id = i}

\* a step that writes writes one response, with the id of the request handled,
\* and the error MethodNotFound exactly for a method that is not known
WritesForRequest ==
    stdout' # stdout =>
        /\ "id" \in DOMAIN request
        /\ Len(stdout') = Len(stdout) + 1
        /\ SubSeq(stdout', 1, Len(stdout)) = stdout
        /\ stdout'[Len(stdout')].id = request.id
        /\ IF request.method \in Answered \cup {"tools/call"}
           THEN "result" \in DOMAIN stdout'[Len(stdout')]
           ELSE stdout'[Len(stdout')].error.code = MethodNotFound

\* C30: every request with an id whose method is not notifications/initialized
\* is eventually answered by exactly one response with that id, a result or
\* the error -32601 for an unknown method, whatever tool and arguments it
\* names; a request without an id gets no response; and the loop goes on to
\* the requests that follow, so all of stdin is read.
C30_EveryRequestAnswered ==
    /\ \A i \in 1..MaxRequests : Pending(i) ~> (Cardinality(Responses(i)) = 1)
    /\ [](\A i \in 1..MaxRequests : Cardinality(Responses(i)) <= 1)
    /\ [][WritesForRequest]_vars
    /\ <>(stdin = <<>> /\ request = NoRequest)

\* the tool called for the request with id i has raised
Raised(i) ==
    /\ Answerable(request) /\ request.id = i
    /\ result.op # "none" /\ result.kind = "raise"

\* the same of the requests that call no tool, or a tool that returns
ServerAnswersUnlessToolRaises ==
    /\ \A i \in 1..MaxRequests :
          Pending(i) ~> (Cardinality(Responses(i)) = 1 \/ Raised(i))
    /\ [](\A i \in 1..MaxRequests : Cardinality(Responses(i)) <= 1)
    /\ [][WritesForRequest]_vars
    /\ <>(stdin = <<>> /\ request = NoRequest)

====
